---- MODULE Spec2Model ----
(***************************************************************************)
(* GitHub metrics collection of sscrm-modules: the contributors cache and  *)
(* single-flight of GitHubPerfClient.list_contributors, the TokenPool      *)
(* credential selection, the REST/GraphQL retry logic and the repository   *)
(* collector.                                                              *)
(***************************************************************************)
EXTENDS Integers, Sequences, FiniteSets, TLC

(***************************************************************************)
(* Bounds of the model.                                                    *)
(***************************************************************************)
NThreads == 2
MaxCalls == 3          \* repositories taken up by all loops together
ShortPage == 1         \* entries of a page shorter than per_page
max_contributors == 150    \* Config.max_contributors of the run
NTokens == 2           \* credentials of the pool
MaxApiCalls == 2       \* rest_get_json / graphql calls of all threads together
MaxTime == 2           \* the clock stops here
MaxRequests == 1       \* update_gql_budget calls, the pool called on its own
MaxUrls == 3           \* lines of repo_urls
max_workers == 2       \* collect_many_repos(max_workers=...)
MaxStoreOps == 3       \* calls made to a store called on its own
MaxCount == 170        \* largest stars, forks, releases or issues count
MaxYearCents == 410    \* longest age, in hundredths of a year
MaxScore == 100        \* largest unclass_score handed to is_score_passing
MaxRuns == 2           \* calls of calculate_repo_scores
MaxClockTicks == 1     \* hundredths of a year going by during the scoring
MaxLogins == 3         \* logins of a batch of profile lookups
MaxEnrichments == 2    \* enrichment steps the fetchers run in all

(***************************************************************************)
(* Program constants.                                                      *)
(***************************************************************************)
per_page == 100
max_profile_lookups == 500
gql_batch_size == 25
RestCooldownSecs == 30      \* mark_rest_rate_limited without a reset header
GqlErrorCooldownSecs == 30  \* graphql() on a rate-limit errors payload
LowBudget == 50             \* update_gql_budget's proactive threshold
MaxListedErrors == 25       \* errors[:25] of the aggregate message

VARIABLES
    \* ---- GitHubPerfClient.list_contributors / contributor_metrics ----
    contributors_cache,     \* dict cache_key -> result list (its length)
    contributors_inflight,  \* dict cache_key -> threading.Event (its id)
    event_set,              \* the Events whose flag is set
    next_event,             \* the next Event id threading.Event() yields
    lc_pc,                  \* position of each thread
    lc_repo,                \* github_repo the thread's loop is at
    lc_calls,               \* repositories the loops have taken up so far
    lc_event,               \* inflight_event a waiter holds
    lc_timed_out,           \* whether the waiter's wait(timeout) expired
    lc_raw,                 \* len(raw) of the fetcher
    lc_pages,               \* /contributors requests the fetcher has issued
    lc_split,               \* len(batch) of the batches run_split has yet
                            \* to run
    lc_results,             \* len(results) of the fetcher
    lc_exc,                 \* an exception is propagating in the fetcher
    lc_ret,                 \* the list list_contributors returned
    repo_contributors,      \* github_repo.contributors, per repository
    fetch_count,            \* per key: times the fetch path was entered
    fetch_done,             \* per key: a fetcher ran its finally block
    late_requests,          \* per key: rest_get_json / graphql calls issued
                            \* once a fetch of the key had finished
    returned,               \* per key: the lists callers received
    \* ---- TokenPool ----
    now,                    \* time.time()
    rr_index,               \* TokenPool._rr_index
    cooldown_until,         \* TokenState.cooldown_until, per token
    gql_remaining,          \* TokenState.gql_remaining: <<>> is None
    gql_reset_unix,         \* TokenState.gql_reset_unix
    gql_last_cost,          \* TokenState.gql_last_cost: <<>> is None
    gql_last_remaining,     \* TokenState.gql_last_remaining
    gql_last_reset_at,      \* TokenState.gql_last_reset_at
    gql_requests,           \* TokenState.gql_requests
    \* ---- the rest_get_json / graphql calls ----
    c_pc,                   \* position of the call
    c_tok,                  \* tok
    c_tok2,                 \* tok2 (0 before it is picked)
    c_sent,                 \* requests the call has sent
    c_status,               \* status_code of the response held in resp
    c_marked,               \* tokens the call passed to mark_rest_rate_limited
    c_outcome,              \* "json" / "data" (returned), "raise", or ""
    c_errors,               \* what payload.get("errors") of the latest 200
                            \* response of a graphql call held
    \* ---- the TokenPool called on its own ----
    picked_tok,             \* the token the latest pick returned (0: none)
    rr_run,                 \* tokens returned by the latest consecutive
                            \* pick_for_rest calls that found every token
                            \* available
    budget_call,            \* the latest update_gql_budget call: tok and
                            \* rate_limit_obj (tok 0: none yet)
    \* ---- github_metrics.collect_many_repos ----
    cm_pc,                  \* position of collect_many_repos
    cm_urls,                \* urls
    fut_state,              \* per future: pending, running, ok or failed
    fut_result,             \* per future: the RepositoryInfo it returned
    cm_handled,             \* futures the as_completed loop has been through
    cm_results,             \* results
    cm_errors,              \* errors (the url of each)
    store_by_uuid,          \* RepositoryStore._by_uuid
    store_by_url,           \* RepositoryStore._by_url
    comp_repo_info,         \* Component.repo_info (its uuid), per component
    next_uuid,              \* the next uuid.uuid4()
    cm_raised,              \* RuntimeErrors collect_many_repos has raised
    cm_msg,                 \* msg of the aggregate error
    cm_returned,            \* the list collect_many_repos returned
    \* ---- models.contributor.ContributorStore ----
    by_login,               \* ContributorStore._by_login
    by_id,                  \* ContributorStore._by_id
    cs_log,                 \* the calls made to the store, in order
    \* ---- models.repo.RepositoryStore called on its own ----
    rs_log,                 \* the repositories passed to add, in order
    \* ---- repo_metrics.prevalence / analysis, function by function ----
    fn_call,                \* the latest call: function, argument, result
    \* ---- repo_metrics.analysis.calculate_repo_scores ----
    weights,                \* the weights of the constants module
    sc_repo,                \* the RepositoryInfo of the repository store
    today,                  \* datetime.now(timezone.utc)
    repo_scores,            \* RepositoryInfo.repo_scores
    prev_scores,            \* repo_scores as the run before left it
    sc_runs,                \* runs of calculate_repo_scores so far
    \* ---- github_metrics.parse_github_repo_url called on its own ----
    parse_call,             \* the latest call: its url and what came of it
    \* ---- list_contributors, lines 352-398: the profiles, per thread ----
    pf_pc,                  \* position in the enrichment step
    pf_logins,              \* logins_to_enrich
    pf_known,               \* the logins the step found in the cache
    pf_batch,               \* batch
    pf_stack,               \* the batches run_split has yet to run
    pf_first,               \* what run_batch did with the whole batch
    batch_profiles,         \* batch_profiles
    pf_i,                   \* position of the REST fallback loop in batch
    pf_gql,                 \* the logins sent in a GraphQL query
    pf_rest,                \* the logins /users/{login} was requested for
    pf_failed,              \* the logins whose profile in batch_profiles comes
                            \* from a lookup that failed or found no user
    pf_count,               \* enrichment steps started so far
    user_profile_cache      \* GitHubPerfClient._user_profile_cache

lcVars == <<contributors_cache, contributors_inflight, event_set, next_event,
            lc_pc, lc_repo, lc_calls, lc_event, lc_timed_out, lc_raw,
            lc_results, lc_exc, lc_ret, repo_contributors, fetch_count,
            fetch_done, late_requests, returned, lc_pages, lc_split>>

\* The locals of the fetch path the other positions leave alone
lcFetchVars == <<lc_pages, lc_split>>

poolVars == <<now, rr_index, cooldown_until, gql_remaining, gql_reset_unix,
              gql_last_cost, gql_last_remaining, gql_last_reset_at,
              gql_requests>>

callVars == <<c_pc, c_tok, c_tok2, c_sent, c_status, c_marked, c_outcome,
              c_errors>>

cmVars == <<cm_pc, cm_urls, fut_state, fut_result, cm_handled, cm_results,
            cm_errors, store_by_uuid, store_by_url, comp_repo_info, next_uuid,
            cm_raised, cm_msg, cm_returned>>

opVars == <<picked_tok, rr_run, budget_call>>

csVars == <<by_login, by_id, cs_log>>

\* The state of the parts that are models and functions of their own
rsVars == <<rs_log>>

fnVars == <<fn_call>>

scVars == <<weights, sc_repo, today, repo_scores, prev_scores, sc_runs>>

puVars == <<parse_call>>

pfVars == <<pf_pc, pf_logins, pf_known, pf_batch, pf_stack, pf_first,
            batch_profiles, pf_i, pf_gql, pf_rest, pf_failed, pf_count,
            user_profile_cache>>

dataVars == <<csVars, rsVars, fnVars, scVars, puVars, pfVars>>

\* The state of the GitHub client, its pool and the collector
clientVars == <<lcVars, poolVars, callVars, cmVars, opVars>>

vars == <<lcVars, poolVars, callVars, cmVars, opVars, dataVars>>

\* The clock reading, in hundredths of a year, the scoring starts at
ClockStart == 1000

Threads == 1..NThreads

\* The rest_get_json / graphql calls of all threads, in the order in which
\* they take the pool's lock for their first pick
Calls == 1..MaxApiCalls

\* TokenPool.tokens: the deduplicated token list, a token being its rank
tokens == [i \in 1..NTokens |-> i]
Tokens == 1..NTokens
None == <<>>
Some(v) == <<v>>

Min(a, b) == IF a <= b THEN a ELSE b
Max(a, b) == IF a >= b THEN a ELSE b

(***************************************************************************)
(* Repositories of the repository store; Repo and repo differ by case only *)
(***************************************************************************)
Repos == { [owner |-> "Org", name |-> "Repo"],
           [owner |-> "org", name |-> "repo"],
           [owner |-> "org", name |-> "lib"] }

\* str.strip().lower() on the names the model uses
Lower(s) == CASE s = "Org"  -> "org"
              [] s = "Repo" -> "repo"
              [] OTHER      -> s

CacheKey(r) == <<Lower(r.owner), Lower(r.name), max_contributors, TRUE,
                 max_profile_lookups, gql_batch_size>>

Keys == { CacheKey(r) : r \in Repos }

NoRepo == [owner |-> "", name |-> ""]

CurRepo(t) == lc_repo[t]
CurKey(t) == CacheKey(CurRepo(t))

\* dict.get(key, default)
DictGet(d, k, default) == IF k \in DOMAIN d THEN d[k] ELSE default
\* d[key] = value
DictPut(d, k, v) == [x \in (DOMAIN d) \cup {k} |-> IF x = k THEN v ELSE d[x]]
\* d.pop(key, None)
DictPop(d, k) == [x \in (DOMAIN d) \ {k} |-> d[x]]

EmptyDict == [x \in {} |-> 0]

\* dict.get(key): None, or the value in a box
Lookup(d, k) == IF k \in DOMAIN d THEN Some(d[k]) ELSE None

(***************************************************************************)
(* Python strings are sequences of one-character strings.                  *)
(***************************************************************************)
Whitespace == {" ", "\t", "\n"}

UpperLetters == <<"A", "B", "C", "D", "E", "F", "G", "H", "I", "J", "K", "L",
                  "M", "N", "O", "P", "Q", "R", "S", "T", "U", "V", "W", "X",
                  "Y", "Z">>
LowerLetters == <<"a", "b", "c", "d", "e", "f", "g", "h", "i", "j", "k", "l",
                  "m", "n", "o", "p", "q", "r", "s", "t", "u", "v", "w", "x",
                  "y", "z">>

LowerChar(c) ==
    IF \E i \in DOMAIN UpperLetters : UpperLetters[i] = c
    THEN LowerLetters[CHOOSE i \in DOMAIN UpperLetters : UpperLetters[i] = c]
    ELSE c

\* str.lower()
StrLower(s) == [i \in 1..Len(s) |-> LowerChar(s[i])]

RECURSIVE LStrip(_, _)
\* str.lstrip(chars)
LStrip(s, chars) ==
    IF s # <<>> /\ Head(s) \in chars THEN LStrip(Tail(s), chars) ELSE s

RECURSIVE RStrip(_, _)
\* str.rstrip(chars)
RStrip(s, chars) ==
    IF s # <<>> /\ s[Len(s)] \in chars
    THEN RStrip(SubSeq(s, 1, Len(s) - 1), chars)
    ELSE s

\* str.strip()
Strip(s) == RStrip(LStrip(s, Whitespace), Whitespace)

HttpsGithub == <<"h", "t", "t", "p", "s", ":", "/", "/", "g", "i", "t", "h", "u",
                "b", ".", "c", "o", "m", "/">>

\* str.find(c) + 1
FirstIndex(s, c) ==
    IF \E i \in DOMAIN s : s[i] = c
    THEN CHOOSE i \in DOMAIN s : s[i] = c /\ \A j \in 1..(i - 1) : s[j] # c
    ELSE 0

\* str.startswith(prefix)
StartsWith(s, prefix) ==
    /\ Len(s) >= Len(prefix)
    /\ SubSeq(s, 1, Len(prefix)) = prefix

\* str.endswith(suffix)
EndsWith(s, suffix) ==
    /\ Len(s) >= Len(suffix)
    /\ SubSeq(s, Len(s) - Len(suffix) + 1, Len(s)) = suffix

(***************************************************************************)
(* Lines of repo_urls: a GitHub repository URL (path is its owner/repo), a *)
(* URL parse_github_repo_url rejects, a blank line, a comment line.        *)
(***************************************************************************)
RepoPaths == {"a", "b"}

RawUrls == [kind : {"github"}, path : RepoPaths]
           \cup [kind : {"other", "blank", "comment"}, path : {"x"}]

\* The components of Config.component_store, by their normalized repo_url
Components == RepoPaths

Init ==
    /\ contributors_cache = EmptyDict
    /\ contributors_inflight = EmptyDict
    /\ event_set = {}
    /\ next_event = 1
    /\ lc_pc = [t \in Threads |-> "loop"]
    /\ lc_repo = [t \in Threads |-> NoRepo]
    /\ lc_calls = 0
    /\ lc_event = [t \in Threads |-> 0]
    /\ lc_timed_out = [t \in Threads |-> FALSE]
    /\ lc_raw = [t \in Threads |-> 0]
    /\ lc_pages = [t \in Threads |-> 0]
    /\ lc_split = [t \in Threads |-> <<>>]
    /\ lc_results = [t \in Threads |-> 0]
    /\ lc_exc = [t \in Threads |-> FALSE]
    /\ lc_ret = [t \in Threads |-> 0]
    /\ repo_contributors = [r \in Repos |-> 0]
    /\ fetch_count = [k \in Keys |-> 0]
    /\ fetch_done = [k \in Keys |-> FALSE]
    /\ late_requests = [k \in Keys |-> 0]
    /\ returned = [k \in Keys |-> {}]
    /\ now = 1
    /\ rr_index = 0
    /\ cooldown_until = [t \in Tokens |-> 0]
    /\ gql_remaining = [t \in Tokens |-> None]
    /\ gql_reset_unix = [t \in Tokens |-> 0]
    /\ gql_last_cost = [t \in Tokens |-> None]
    /\ gql_last_remaining = [t \in Tokens |-> None]
    /\ gql_last_reset_at = [t \in Tokens |-> None]
    /\ gql_requests = [t \in Tokens |-> 0]
    /\ c_pc = [t \in Calls |-> "idle"]
    /\ c_tok = [t \in Calls |-> 0]
    /\ c_tok2 = [t \in Calls |-> 0]
    /\ c_sent = [t \in Calls |-> 0]
    /\ c_status = [t \in Calls |-> 0]
    /\ c_marked = [t \in Calls |-> {}]
    /\ c_outcome = [t \in Calls |-> ""]
    /\ c_errors = [t \in Calls |-> ""]
    /\ picked_tok = 0
    /\ rr_run = <<>>
    /\ budget_call = [tok |-> 0, rl |-> None]
    /\ cm_pc = "idle"
    /\ cm_urls = <<>>
    /\ fut_state = <<>>
    /\ fut_result = <<>>
    /\ cm_handled = {}
    /\ cm_results = <<>>
    /\ cm_errors = <<>>
    /\ store_by_uuid = EmptyDict
    /\ store_by_url = EmptyDict
    /\ comp_repo_info = [c \in Components |-> None]
    /\ next_uuid = 1
    /\ cm_raised = 0
    /\ cm_msg = None
    /\ cm_returned = None
    /\ by_login = EmptyDict
    /\ by_id = EmptyDict
    /\ cs_log = <<>>
    /\ rs_log = <<>>
    /\ fn_call = [fn |-> "", arg |-> 0, ret |-> 0]
    /\ weights = None
    /\ sc_repo = None
    /\ today = ClockStart
    /\ repo_scores = None
    /\ prev_scores = None
    /\ sc_runs = 0
    /\ parse_call = None
    /\ pf_pc = [t \in Threads |-> "idle"]
    /\ pf_logins = [t \in Threads |-> <<>>]
    /\ pf_known = [t \in Threads |-> {}]
    /\ pf_batch = [t \in Threads |-> <<>>]
    /\ pf_stack = [t \in Threads |-> <<>>]
    /\ pf_first = [t \in Threads |-> ""]
    /\ batch_profiles = [t \in Threads |-> EmptyDict]
    /\ pf_i = [t \in Threads |-> 0]
    /\ pf_gql = [t \in Threads |-> {}]
    /\ pf_rest = [t \in Threads |-> {}]
    /\ pf_failed = [t \in Threads |-> {}]
    /\ pf_count = 0
    /\ user_profile_cache = EmptyDict

Returned(k, list) == [returned EXCEPT ![k] = @ \cup {list}]

(***************************************************************************)
(* list_contributors, lines 280-307: the cache key, the fast path and the  *)
(* registration of the single flight, all under _contributors_cache_lock.  *)
(***************************************************************************)
LCEnterNoSingleFlight(t) ==
    /\ lc_pc[t] = "loop"
    /\ UNCHANGED <<poolVars, callVars, cmVars, opVars, dataVars>>
    /\ UNCHANGED lcFetchVars
    /\ lc_calls < MaxCalls
    /\ lc_calls' = lc_calls + 1
    /\ \E r \in Repos :
       LET k == CacheKey(r) IN
       /\ lc_repo' = [lc_repo EXCEPT ![t] = r]
       /\ IF k \in DOMAIN contributors_cache
          THEN /\ lc_ret' = [lc_ret EXCEPT ![t] = contributors_cache[k]]
               /\ returned' = Returned(k, contributors_cache[k])
               /\ lc_pc' = [lc_pc EXCEPT ![t] = "assign"]
               /\ UNCHANGED <<contributors_inflight, next_event, lc_event,
                              fetch_count, lc_exc>>
          ELSE /\ contributors_inflight' =
                      DictPut(contributors_inflight, k, next_event)
               /\ next_event' = next_event + 1
               /\ fetch_count' = [fetch_count EXCEPT ![k] = @ + 1]
               /\ lc_exc' = [lc_exc EXCEPT ![t] = FALSE]
               /\ lc_pc' = [lc_pc EXCEPT ![t] = "page"]
               /\ UNCHANGED <<lc_event, lc_ret, returned>>
    /\ UNCHANGED <<contributors_cache, event_set, lc_timed_out, lc_raw,
                   lc_results, repo_contributors, fetch_done, late_requests>>

LCEnter(t) ==
    /\ lc_pc[t] = "loop"
    /\ UNCHANGED <<poolVars, callVars, cmVars, opVars, dataVars>>
    /\ UNCHANGED lcFetchVars
    /\ lc_calls < MaxCalls
    /\ lc_calls' = lc_calls + 1
    /\ \E r \in Repos :
       LET k == CacheKey(r) IN
       /\ lc_repo' = [lc_repo EXCEPT ![t] = r]
       /\ IF k \in DOMAIN contributors_cache
          THEN /\ lc_ret' = [lc_ret EXCEPT ![t] = contributors_cache[k]]
               /\ returned' = Returned(k, contributors_cache[k])
               /\ lc_pc' = [lc_pc EXCEPT ![t] = "assign"]
               /\ UNCHANGED <<contributors_inflight, next_event, lc_event,
                              fetch_count, lc_exc>>
          ELSE IF k \in DOMAIN contributors_inflight
          THEN /\ lc_event' = [lc_event EXCEPT ![t] = contributors_inflight[k]]
               /\ lc_pc' = [lc_pc EXCEPT ![t] = "wait"]
               /\ UNCHANGED <<contributors_inflight, next_event, lc_ret,
                              returned, fetch_count, lc_exc>>
          ELSE /\ contributors_inflight' =
                      DictPut(contributors_inflight, k, next_event)
               /\ next_event' = next_event + 1
               /\ fetch_count' = [fetch_count EXCEPT ![k] = @ + 1]
               /\ lc_exc' = [lc_exc EXCEPT ![t] = FALSE]
               /\ lc_pc' = [lc_pc EXCEPT ![t] = "page"]
               /\ UNCHANGED <<lc_event, lc_ret, returned>>
    /\ UNCHANGED <<contributors_cache, event_set, lc_timed_out, lc_raw,
                   lc_results, repo_contributors, fetch_done, late_requests>>

(***************************************************************************)
(* Line 311, inflight_event.wait(timeout=120): the wait ends when the      *)
(* event is set, or when 120 s pass with the event still unset.            *)
(***************************************************************************)
LCWaitSignalled(t) ==
    /\ lc_pc[t] = "wait"
    /\ UNCHANGED <<poolVars, callVars, cmVars, opVars, dataVars>>
    /\ UNCHANGED lcFetchVars
    /\ lc_event[t] \in event_set
    /\ lc_timed_out' = [lc_timed_out EXCEPT ![t] = FALSE]
    /\ lc_pc' = [lc_pc EXCEPT ![t] = "waited"]
    /\ UNCHANGED <<contributors_cache, contributors_inflight, event_set,
                   next_event, lc_repo, lc_calls, lc_event, lc_raw, lc_results,
                   lc_exc, lc_ret, repo_contributors, fetch_count, fetch_done,
                   late_requests, returned>>

LCWaitTimeout(t) ==
    /\ lc_pc[t] = "wait"
    /\ UNCHANGED <<poolVars, callVars, cmVars, opVars, dataVars>>
    /\ UNCHANGED lcFetchVars
    /\ lc_event[t] \notin event_set
    /\ lc_timed_out' = [lc_timed_out EXCEPT ![t] = TRUE]
    /\ lc_pc' = [lc_pc EXCEPT ![t] = "waited"]
    /\ UNCHANGED <<contributors_cache, contributors_inflight, event_set,
                   next_event, lc_repo, lc_calls, lc_event, lc_raw, lc_results,
                   lc_exc, lc_ret, repo_contributors, fetch_count, fetch_done,
                   late_requests, returned>>

\* Lines 312-313 with a waiter that fetches for itself once its wait has
\* timed out on a key that is still not cached
LCAfterWaitRefetch(t) ==
    /\ lc_pc[t] = "waited"
    /\ UNCHANGED <<poolVars, callVars, cmVars, opVars, dataVars>>
    /\ UNCHANGED lcFetchVars
    /\ LET k == CurKey(t)
           list == DictGet(contributors_cache, k, 0) IN
       IF lc_timed_out[t] /\ k \notin DOMAIN contributors_cache
       THEN /\ fetch_count' = [fetch_count EXCEPT ![k] = @ + 1]
            /\ lc_pc' = [lc_pc EXCEPT ![t] = "page"]
            /\ UNCHANGED <<lc_ret, returned>>
       ELSE /\ lc_ret' = [lc_ret EXCEPT ![t] = list]
            /\ returned' = Returned(k, list)
            /\ lc_pc' = [lc_pc EXCEPT ![t] = "assign"]
            /\ UNCHANGED fetch_count
    /\ UNCHANGED <<contributors_cache, contributors_inflight, event_set,
                   next_event, lc_repo, lc_calls, lc_event, lc_timed_out, lc_raw,
                   lc_results, lc_exc, repo_contributors, fetch_done,
                   late_requests>>

\* Lines 312-313: return self._contributors_cache.get(cache_key, [])
LCAfterWait(t) ==
    /\ lc_pc[t] = "waited"
    /\ UNCHANGED <<poolVars, callVars, cmVars, opVars, dataVars>>
    /\ UNCHANGED lcFetchVars
    /\ LET k == CurKey(t)
           list == DictGet(contributors_cache, k, 0) IN
       /\ lc_ret' = [lc_ret EXCEPT ![t] = list]
       /\ returned' = Returned(k, list)
    /\ lc_pc' = [lc_pc EXCEPT ![t] = "assign"]
    /\ UNCHANGED <<contributors_cache, contributors_inflight, event_set,
                   next_event, lc_repo, lc_calls, lc_event, lc_timed_out, lc_raw,
                   lc_results, lc_exc, repo_contributors, fetch_count,
                   fetch_done, late_requests>>

(***************************************************************************)
(* Lines 329-339: one iteration of the paging loop. The REST call raises,  *)
(* or yields an empty page, a short page or a full page.      *)
(***************************************************************************)
PageOutcomes == {"raise", "empty", "short", "full"}

LCPage(t) ==
    /\ lc_pc[t] = "page"
    /\ UNCHANGED <<poolVars, callVars, cmVars, opVars, dataVars>>
    /\ lc_pages' = [lc_pages EXCEPT ![t] = @ + 1]
    /\ UNCHANGED lc_split
    /\ lc_raw[t] < max_contributors
    /\ \E out \in PageOutcomes :
         LET got == CASE out = "short" -> ShortPage
                      [] out = "full"  -> per_page
                      [] OTHER         -> 0
             raw == lc_raw[t] + got IN
         /\ lc_raw' = [lc_raw EXCEPT ![t] = raw]
         /\ lc_exc' = [lc_exc EXCEPT ![t] = (out = "raise")]
         /\ lc_pc' = [lc_pc EXCEPT ![t] =
                 CASE out = "raise" -> "finally"
                   [] out = "full" /\ raw < max_contributors -> "page"
                   [] OTHER -> "enrich"]
    /\ late_requests' = [late_requests EXCEPT ![CurKey(t)] =
                             IF fetch_done[CurKey(t)] THEN @ + 1 ELSE @]
    /\ UNCHANGED <<contributors_cache, contributors_inflight, event_set,
                   next_event, lc_repo, lc_calls, lc_event, lc_timed_out,
                   lc_results, lc_ret, repo_contributors, fetch_count,
                   fetch_done, returned>>

(***************************************************************************)
(* Lines 341-370: truncate raw, select the logins to enrich and read the   *)
(* profile cache: m of the logins are missing and go to                    *)
(* _fetch_user_profiles_gql as one batch; lines 400-423 build the result   *)
(* list, one entry for each of raw.                                        *)
(***************************************************************************)
LCEnrich(t) ==
    /\ lc_pc[t] = "enrich"
    /\ UNCHANGED <<poolVars, callVars, cmVars, opVars, dataVars>>
    /\ LET raw == Min(lc_raw[t], max_contributors)
           logins_to_enrich == IF max_profile_lookups > 0
                               THEN Min(raw, max_profile_lookups) ELSE 0 IN
       /\ lc_raw' = [lc_raw EXCEPT ![t] = raw]
       /\ lc_results' = [lc_results EXCEPT ![t] = raw]
       /\ \E m \in 0..Min(logins_to_enrich, MaxLogins) :
            /\ lc_split' = [lc_split EXCEPT ![t] =
                               IF m = 0 THEN <<>> ELSE <<m>>]
            /\ lc_pc' = [lc_pc EXCEPT ![t] =
                               IF m = 0 THEN "finally" ELSE "run_split"]
    /\ UNCHANGED <<contributors_cache, contributors_inflight, event_set,
                   next_event, lc_repo, lc_calls, lc_event, lc_timed_out, lc_exc,
                   lc_ret, repo_contributors, fetch_count, fetch_done, returned,
                   late_requests, lc_pages>>

\* run_split, lines 246-258, with a batch of one split again
SplitNeverStops(n, raises) ==
    IF ~raises THEN <<>>
    ELSE <<n \div 2, n - (n \div 2)>>

\* run_split, lines 246-258, on a batch of n logins: the batches it goes on
\* with when run_batch returns and when it raises
Split(n, raises) ==
    IF ~raises \/ n <= 1 THEN <<>>
    ELSE <<n \div 2, n - (n \div 2)>>

\* Lines 372-398: one run_batch request of _fetch_user_profiles_gql for
\* the batch on top; after the last one the profiles are stored
LCRunSplit(t) ==
    /\ lc_pc[t] = "run_split"
    /\ UNCHANGED <<poolVars, callVars, cmVars, opVars, dataVars>>
    /\ \E raises \in BOOLEAN :
         lc_split' = [lc_split EXCEPT ![t] =
                         Split(Head(@), raises) \o Tail(@)]
    /\ late_requests' = [late_requests EXCEPT ![CurKey(t)] =
                             IF fetch_done[CurKey(t)] THEN @ + 1 ELSE @]
    /\ lc_pc' = [lc_pc EXCEPT ![t] =
                     IF lc_split'[t] = <<>> THEN "finally" ELSE "run_split"]
    /\ UNCHANGED <<contributors_cache, contributors_inflight, event_set,
                   next_event, lc_repo, lc_calls, lc_event, lc_timed_out, lc_raw,
                   lc_results, lc_exc, lc_ret, repo_contributors, fetch_count,
                   fetch_done, returned, lc_pages>>

(***************************************************************************)
(* Lines 425-431, the finally block, and then line 423 (return results)    *)
(* or the propagation of the exception.                                    *)
(***************************************************************************)
LCFinallyNoSignal(t) ==
    /\ lc_pc[t] = "finally"
    /\ UNCHANGED <<poolVars, callVars, cmVars, opVars, dataVars>>
    /\ lc_pages' = [lc_pages EXCEPT ![t] = 0]
    /\ UNCHANGED lc_split
    /\ LET k == CurKey(t) IN
       /\ contributors_cache' = DictPut(contributors_cache, k, lc_results[t])
       /\ contributors_inflight' = DictPop(contributors_inflight, k)
       /\ event_set' = event_set
       /\ fetch_done' = [fetch_done EXCEPT ![k] = TRUE]
       /\ IF lc_exc[t]
          THEN /\ lc_pc' = [lc_pc EXCEPT ![t] = "raised"]
               /\ UNCHANGED <<lc_ret, returned>>
          ELSE /\ lc_pc' = [lc_pc EXCEPT ![t] = "assign"]
               /\ lc_ret' = [lc_ret EXCEPT ![t] = lc_results[t]]
               /\ returned' = Returned(k, lc_results[t])
    /\ lc_raw' = [lc_raw EXCEPT ![t] = 0]
    /\ lc_results' = [lc_results EXCEPT ![t] = 0]
    /\ UNCHANGED <<next_event, lc_repo, lc_calls, lc_event, lc_timed_out,
                   lc_exc, repo_contributors, fetch_count, late_requests>>

LCFinallyCacheOnSuccessOnly(t) ==
    /\ lc_pc[t] = "finally"
    /\ UNCHANGED <<poolVars, callVars, cmVars, opVars, dataVars>>
    /\ lc_pages' = [lc_pages EXCEPT ![t] = 0]
    /\ UNCHANGED lc_split
    /\ LET k == CurKey(t) IN
       /\ contributors_cache' = IF lc_exc[t] THEN contributors_cache
                                ELSE DictPut(contributors_cache, k, lc_results[t])
       /\ contributors_inflight' = DictPop(contributors_inflight, k)
       /\ event_set' = IF k \in DOMAIN contributors_inflight
                       THEN event_set \cup {contributors_inflight[k]}
                       ELSE event_set
       /\ fetch_done' = [fetch_done EXCEPT ![k] = TRUE]
       /\ IF lc_exc[t]
          THEN /\ lc_pc' = [lc_pc EXCEPT ![t] = "raised"]
               /\ UNCHANGED <<lc_ret, returned>>
          ELSE /\ lc_pc' = [lc_pc EXCEPT ![t] = "assign"]
               /\ lc_ret' = [lc_ret EXCEPT ![t] = lc_results[t]]
               /\ returned' = Returned(k, lc_results[t])
    /\ lc_raw' = [lc_raw EXCEPT ![t] = 0]
    /\ lc_results' = [lc_results EXCEPT ![t] = 0]
    /\ UNCHANGED <<next_event, lc_repo, lc_calls, lc_event, lc_timed_out,
                   lc_exc, repo_contributors, fetch_count, late_requests>>

\* The finally block without the pop of line 429: the key stays registered
LCFinallyKeepsInflight(t) ==
    /\ lc_pc[t] = "finally"
    /\ UNCHANGED <<poolVars, callVars, cmVars, opVars, dataVars>>
    /\ lc_pages' = [lc_pages EXCEPT ![t] = 0]
    /\ UNCHANGED lc_split
    /\ LET k == CurKey(t) IN
       /\ contributors_cache' = DictPut(contributors_cache, k, lc_results[t])
       /\ UNCHANGED contributors_inflight
       /\ event_set' = IF k \in DOMAIN contributors_inflight
                       THEN event_set \cup {contributors_inflight[k]}
                       ELSE event_set
       /\ fetch_done' = [fetch_done EXCEPT ![k] = TRUE]
       /\ IF lc_exc[t]
          THEN /\ lc_pc' = [lc_pc EXCEPT ![t] = "raised"]
               /\ UNCHANGED <<lc_ret, returned>>
          ELSE /\ lc_pc' = [lc_pc EXCEPT ![t] = "assign"]
               /\ lc_ret' = [lc_ret EXCEPT ![t] = lc_results[t]]
               /\ returned' = Returned(k, lc_results[t])
    /\ lc_raw' = [lc_raw EXCEPT ![t] = 0]
    /\ lc_results' = [lc_results EXCEPT ![t] = 0]
    /\ UNCHANGED <<next_event, lc_repo, lc_calls, lc_event, lc_timed_out,
                   lc_exc, repo_contributors, fetch_count, late_requests>>

LCFinally(t) ==
    /\ lc_pc[t] = "finally"
    /\ UNCHANGED <<poolVars, callVars, cmVars, opVars, dataVars>>
    /\ lc_pages' = [lc_pages EXCEPT ![t] = 0]
    /\ UNCHANGED lc_split
    /\ LET k == CurKey(t) IN
       /\ contributors_cache' = DictPut(contributors_cache, k, lc_results[t])
       /\ contributors_inflight' = DictPop(contributors_inflight, k)
       /\ event_set' = IF k \in DOMAIN contributors_inflight
                       THEN event_set \cup {contributors_inflight[k]}
                       ELSE event_set
       /\ fetch_done' = [fetch_done EXCEPT ![k] = TRUE]
       /\ IF lc_exc[t]
          THEN /\ lc_pc' = [lc_pc EXCEPT ![t] = "raised"]
               /\ UNCHANGED <<lc_ret, returned>>
          ELSE /\ lc_pc' = [lc_pc EXCEPT ![t] = "assign"]
               /\ lc_ret' = [lc_ret EXCEPT ![t] = lc_results[t]]
               /\ returned' = Returned(k, lc_results[t])
    /\ lc_raw' = [lc_raw EXCEPT ![t] = 0]
    /\ lc_results' = [lc_results EXCEPT ![t] = 0]
    /\ UNCHANGED <<next_event, lc_repo, lc_calls, lc_event, lc_timed_out,
                   lc_exc, repo_contributors, fetch_count, late_requests>>

(***************************************************************************)
(* contributor_metrics.get_repo_contributors, lines 6-8, and the loop of   *)
(* main, lines 15-17: neither catches, so an exception of                  *)
(* list_contributors ends the loop.                                        *)
(***************************************************************************)
GetRepoContributors(t) ==
    /\ lc_pc[t] = "assign"
    /\ UNCHANGED <<poolVars, callVars, cmVars, opVars, dataVars>>
    /\ UNCHANGED lcFetchVars
    /\ repo_contributors' = [repo_contributors EXCEPT ![CurRepo(t)] = lc_ret[t]]
    /\ lc_ret' = [lc_ret EXCEPT ![t] = 0]
    /\ lc_event' = [lc_event EXCEPT ![t] = 0]
    /\ lc_timed_out' = [lc_timed_out EXCEPT ![t] = FALSE]
    /\ lc_pc' = [lc_pc EXCEPT ![t] = "loop"]
    /\ UNCHANGED <<contributors_cache, contributors_inflight, event_set,
                   next_event, lc_repo, lc_calls, lc_raw, lc_results, lc_exc,
                   fetch_count, fetch_done, late_requests, returned>>

MainPropagates(t) ==
    /\ lc_pc[t] = "raised"
    /\ UNCHANGED <<poolVars, callVars, cmVars, opVars, dataVars>>
    /\ UNCHANGED lcFetchVars
    /\ lc_pc' = [lc_pc EXCEPT ![t] = "halted"]
    /\ UNCHANGED <<contributors_cache, contributors_inflight, event_set,
                   next_event, lc_repo, lc_calls, lc_event, lc_timed_out, lc_raw,
                   lc_results, lc_exc, lc_ret, repo_contributors, fetch_count,
                   fetch_done, late_requests, returned>>

StepLC(t) ==
    \/ LCEnter(t)
    \/ LCWaitSignalled(t)
    \/ LCWaitTimeout(t)
    \/ LCAfterWait(t)
    \/ LCPage(t)
    \/ LCEnrich(t)
    \/ LCRunSplit(t)
    \/ LCFinally(t)
    \/ GetRepoContributors(t)
    \/ MainPropagates(t)

NextLC == \E t \in Threads : StepLC(t)

SpecLC == Init /\ [][NextLC]_vars

\* The fetcher's requests return, a set event wakes its waiters, and every
\* thread that can take a step of its own is scheduled.
FairLC ==
    \A t \in Threads :
        /\ WF_vars(LCPage(t))
        /\ WF_vars(LCEnrich(t))
        /\ WF_vars(LCRunSplit(t))
        /\ WF_vars(LCFinally(t))
        /\ WF_vars(LCWaitSignalled(t))
        /\ WF_vars(LCAfterWait(t))

FairSpecLC == SpecLC /\ FairLC

(***************************************************************************)
(* TokenPool (repo_metrics/github/token_pool.py)                           *)
(***************************************************************************)
NTok == Len(tokens)

\* min(self.tokens, key=cooldown_until): the first token of least cooldown
SoonestToken ==
    LET i == CHOOSE i \in 1..NTok :
                 /\ \A j \in 1..NTok :
                        cooldown_until[tokens[i]] <= cooldown_until[tokens[j]]
                 /\ \A j \in 1..(i - 1) :
                        cooldown_until[tokens[j]] > cooldown_until[tokens[i]]
    IN tokens[i]

\* The for loop of pick_for_rest with i iterations left, from index rr
RECURSIVE RestScan(_, _)
RestScan(i, rr) ==
    IF i = 0
    THEN [found |-> FALSE, tok |-> 0, rr |-> rr]
    ELSE LET tok == tokens[(rr % NTok) + 1]
             rr2 == (rr + 1) % NTok IN
         IF cooldown_until[tok] <= now
         THEN [found |-> TRUE, tok |-> tok, rr |-> rr2]
         ELSE RestScan(i - 1, rr2)

\* pick_for_rest: the token returned and the new _rr_index
PickForRestStuckIndex ==
    LET r == RestScan(NTok, rr_index) IN
    IF r.found THEN [tok |-> r.tok, rr |-> rr_index]
    ELSE [tok |-> SoonestToken, rr |-> rr_index]

PickForRest ==
    LET r == RestScan(NTok, rr_index) IN
    IF r.found THEN [tok |-> r.tok, rr |-> r.rr]
    ELSE [tok |-> SoonestToken, rr |-> r.rr]

GqlCandidate(t) == cooldown_until[t] <= now /\ gql_reset_unix[t] <= now

\* key of max(): -1 if gql_remaining is None else gql_remaining
RemainingKey(t) == IF gql_remaining[t] = None THEN -1 ELSE gql_remaining[t][1]

\* max(candidates, key=...): the first candidate of greatest key
FirstMaxRemaining(cands) ==
    LET i == CHOOSE i \in 1..Len(cands) :
                 /\ \A j \in 1..Len(cands) :
                        RemainingKey(cands[i]) >= RemainingKey(cands[j])
                 /\ \A j \in 1..(i - 1) :
                        RemainingKey(cands[j]) < RemainingKey(cands[i])
    IN cands[i]

\* pick_for_graphql falling back to the first token of the pool
PickForGraphqlFirstToken ==
    LET candidates == SelectSeq(tokens, GqlCandidate) IN
    IF candidates = <<>>
    THEN [tok |-> tokens[1], rr |-> rr_index]
    ELSE IF \A i \in 1..Len(candidates) : gql_remaining[candidates[i]] = None
    THEN [tok |-> candidates[(rr_index % Len(candidates)) + 1],
          rr |-> (rr_index + 1) % NTok]
    ELSE [tok |-> FirstMaxRemaining(candidates), rr |-> rr_index]

\* pick_for_graphql: the token returned and the new _rr_index
PickForGraphql ==
    LET candidates == SelectSeq(tokens, GqlCandidate) IN
    IF candidates = <<>>
    THEN [tok |-> SoonestToken, rr |-> rr_index]
    ELSE IF \A i \in 1..Len(candidates) : gql_remaining[candidates[i]] = None
    THEN [tok |-> candidates[(rr_index % Len(candidates)) + 1],
          rr |-> (rr_index + 1) % NTok]
    ELSE [tok |-> FirstMaxRemaining(candidates), rr |-> rr_index]

\* _parse_reset_header_unix: None for a header that is absent, empty or not
\* all digits, else float(int(header))
ParseResetHeaderUnix(reset_header) ==
    IF reset_header.kind = "digits" THEN Some(reset_header.val) ELSE None

\* mark_rest_rate_limited(tok, resp): the new cooldown_until of tok
MarkedCooldownNoMax(tok, resp) ==
    LET reset_unix == ParseResetHeaderUnix(resp.reset) IN
    IF reset_unix # None /\ reset_unix[1] # 0
    THEN reset_unix[1] + 1
    ELSE now + RestCooldownSecs

MarkedCooldown(tok, resp) ==
    LET reset_unix == ParseResetHeaderUnix(resp.reset) IN
    IF reset_unix # None /\ reset_unix[1] # 0
    THEN Max(cooldown_until[tok], reset_unix[1] + 1)
    ELSE Max(cooldown_until[tok], now + RestCooldownSecs)

\* datetime.fromisoformat(resetAt).timestamp(), None when resetAt is no
\* string or does not parse
ResetAtUnix(reset_at) ==
    IF reset_at.kind = "iso" THEN Some(reset_at.unix) ELSE None

\* update_gql_budget without the test that the reset is still to come
UpdateGqlBudgetAnyReset(tok, rl) ==
    LET reset_unix == ResetAtUnix(rl.resetAt) IN
    /\ gql_remaining' = [gql_remaining EXCEPT ![tok] = Some(rl.remaining)]
    /\ gql_reset_unix' = [gql_reset_unix EXCEPT ![tok] =
                             IF reset_unix # None THEN reset_unix[1] ELSE @]
    /\ gql_last_cost' = [gql_last_cost EXCEPT ![tok] = Some(rl.cost)]
    /\ gql_last_remaining' = [gql_last_remaining EXCEPT ![tok] = Some(rl.remaining)]
    /\ gql_last_reset_at' = [gql_last_reset_at EXCEPT ![tok] =
                                IF rl.resetAt.kind # "none"
                                THEN Some(rl.resetAt) ELSE @]
    /\ gql_requests' = [gql_requests EXCEPT ![tok] = @ + 1]
    /\ cooldown_until' = [cooldown_until EXCEPT ![tok] =
            IF /\ rl.remaining <= LowBudget
               /\ reset_unix # None /\ reset_unix[1] # 0
            THEN Max(@, reset_unix[1] + 1)
            ELSE @]

\* update_gql_budget(tok, rate_limit_obj), lines 91-115, under the lock
UpdateGqlBudget(tok, rl) ==
    LET reset_unix == ResetAtUnix(rl.resetAt) IN
    /\ gql_remaining' = [gql_remaining EXCEPT ![tok] = Some(rl.remaining)]
    /\ gql_reset_unix' = [gql_reset_unix EXCEPT ![tok] =
                             IF reset_unix # None THEN reset_unix[1] ELSE @]
    /\ gql_last_cost' = [gql_last_cost EXCEPT ![tok] = Some(rl.cost)]
    /\ gql_last_remaining' = [gql_last_remaining EXCEPT ![tok] = Some(rl.remaining)]
    /\ gql_last_reset_at' = [gql_last_reset_at EXCEPT ![tok] =
                                IF rl.resetAt.kind # "none"
                                THEN Some(rl.resetAt) ELSE @]
    /\ gql_requests' = [gql_requests EXCEPT ![tok] = @ + 1]
    /\ cooldown_until' = [cooldown_until EXCEPT ![tok] =
            IF /\ rl.remaining <= LowBudget
               /\ reset_unix # None /\ reset_unix[1] # 0
               /\ reset_unix[1] > now
            THEN Max(@, reset_unix[1] + 1)
            ELSE @]

budgetVars == <<gql_remaining, gql_reset_unix, gql_last_cost,
                gql_last_remaining, gql_last_reset_at, gql_requests>>

(***************************************************************************)
(* What the GitHub API may answer.                                         *)
(***************************************************************************)
\* X-RateLimit-Reset: absent, an HTTP date, "0", a second ago, this second
NoHeader == [kind |-> "absent", val |-> 0]

ResetHeaders == {NoHeader, [kind |-> "text", val |-> 0]}
                \cup [kind : {"digits"}, val : {0, now - 1, now}]

\* status_code, whether X-RateLimit-Remaining is "0" or the body mentions
\* "rate limit", and X-RateLimit-Reset (which only a rate-limited response
\* is asked for)
HttpResponses ==
    [status : {200, 403, 500}, rl_signal : {FALSE}, reset : {NoHeader}]
    \cup [status : {200}, rl_signal : {TRUE}, reset : {NoHeader}]
    \cup [status : {403, 429}, rl_signal : {TRUE}, reset : ResetHeaders]

\* Lines 38-40, 48-50, 68-70, 79-81
IsRateLimited(resp) == resp.status \in {403, 429} /\ resp.rl_signal

\* resetAt of a rateLimit object: missing, or an ISO time: this second or a
\* second ahead
ResetAts == {[kind |-> "none", unix |-> 0],
             [kind |-> "iso", unix |-> now],
             [kind |-> "iso", unix |-> now + 1]}

RateLimitObjs ==
    [cost : {1}, remaining : {LowBudget, LowBudget + 1}, resetAt : ResetAts]

\* Lines 98-100: the cooldown graphql() sets itself, the new cooldown_until
GqlErrorCooldown(tok) == Max(cooldown_until[tok], now + GqlErrorCooldownSecs)

(***************************************************************************)
(* The TokenPool on its own: its methods, and the cooldown graphql() sets  *)
(* under the pool's lock, called in any order with any argument.           *)
(***************************************************************************)
AllAvailable == \A t \in Tokens : cooldown_until[t] <= now

\* the latest n picks of a run of pick_for_rest calls
RunAfterRestPick(tok) ==
    IF AllAvailable
    THEN LET r == Append(rr_run, tok) IN
         IF Len(r) > NTok THEN Tail(r) ELSE r
    ELSE <<>>

PoolPickForRest ==
    /\ LET p == PickForRest IN
       /\ rr_index' = p.rr
       /\ rr_run' = RunAfterRestPick(p.tok)
       /\ picked_tok' = p.tok
    /\ UNCHANGED <<now, cooldown_until, budgetVars, budget_call, callVars,
                   lcVars, cmVars, dataVars>>

PoolPickForGraphql ==
    /\ LET p == PickForGraphql IN
       /\ rr_index' = p.rr
       /\ picked_tok' = p.tok
    /\ rr_run' = <<>>
    /\ UNCHANGED <<now, cooldown_until, budgetVars, budget_call, callVars,
                   lcVars, cmVars, dataVars>>

PoolMarkRestRateLimited(tok) ==
    /\ \E resp \in {r \in HttpResponses : IsRateLimited(r)} :
         cooldown_until' = [cooldown_until EXCEPT ![tok] = MarkedCooldown(tok, resp)]
    /\ UNCHANGED <<now, rr_index, budgetVars, callVars, lcVars, cmVars, opVars, dataVars>>

RECURSIVE SumRequests(_)
SumRequests(n) == IF n = 0 THEN 0 ELSE gql_requests[tokens[n]] + SumRequests(n - 1)

PoolUpdateGqlBudget(tok) ==
    /\ SumRequests(NTok) < MaxRequests
    /\ \E rl \in RateLimitObjs :
         /\ UpdateGqlBudget(tok, rl)
         /\ budget_call' = [tok |-> tok, rl |-> Some(rl)]
    /\ UNCHANGED <<now, rr_index, callVars, lcVars, cmVars, picked_tok, rr_run,
                   dataVars>>

\* github_perf_client.py lines 98-100
PoolGqlErrorCooldown(tok) ==
    /\ cooldown_until' = [cooldown_until EXCEPT ![tok] = GqlErrorCooldown(tok)]
    /\ UNCHANGED <<now, rr_index, budgetVars, callVars, lcVars, cmVars, opVars, dataVars>>

\* time.time() advances
Tick ==
    /\ now < MaxTime
    /\ now' = now + 1
    /\ UNCHANGED <<rr_index, cooldown_until, budgetVars, callVars, lcVars,
                   cmVars, opVars, dataVars>>

\* the picks among the calls that send credentials into cooldown
NextPoolPicks ==
    \/ Tick
    \/ PoolPickForRest
    \/ PoolPickForGraphql
    \/ \E tok \in Tokens : PoolMarkRestRateLimited(tok)
    \/ \E tok \in Tokens : PoolGqlErrorCooldown(tok)

SpecPoolPicks == Init /\ [][NextPoolPicks]_vars

\* the three writers of cooldown_until
NextPoolCooldown ==
    \/ Tick
    \/ \E tok \in Tokens : PoolMarkRestRateLimited(tok)
    \/ \E tok \in Tokens : PoolUpdateGqlBudget(tok)
    \/ \E tok \in Tokens : PoolGqlErrorCooldown(tok)

SpecPoolCooldown == Init /\ [][NextPoolCooldown]_vars

\* pick_for_graphql among the calls that write what it reads
NextPoolGql ==
    \/ Tick
    \/ PoolPickForGraphql
    \/ \E tok \in Tokens : PoolMarkRestRateLimited(tok)
    \/ \E tok \in Tokens : PoolUpdateGqlBudget(tok)
    \/ \E tok \in Tokens : PoolGqlErrorCooldown(tok)

SpecPoolGql == Init /\ [][NextPoolGql]_vars

(***************************************************************************)
(* GitHubPerfClient.rest_get_json, lines 32-58                             *)
(***************************************************************************)
\* Line 33: pick_for_rest, and line 35: the GET is sent
RestStart(t) ==
    /\ c_pc[t] = "idle"
    /\ \A u \in Calls : u < t => c_pc[u] # "idle"
    /\ LET p == PickForRest IN
       /\ c_tok' = [c_tok EXCEPT ![t] = p.tok]
       /\ rr_index' = p.rr
    /\ c_tok2' = [c_tok2 EXCEPT ![t] = 0]
    /\ c_sent' = [c_sent EXCEPT ![t] = 1]
    /\ c_status' = [c_status EXCEPT ![t] = 0]
    /\ c_marked' = [c_marked EXCEPT ![t] = {}]
    /\ c_outcome' = [c_outcome EXCEPT ![t] = ""]
    /\ c_errors' = [c_errors EXCEPT ![t] = ""]
    /\ c_pc' = [c_pc EXCEPT ![t] = "r_get1"]
    /\ UNCHANGED <<now, cooldown_until, budgetVars, lcVars, cmVars, opVars, dataVars>>

\* Lines 55-58 on the response the call ends with
RestOutcome(status) == IF status >= 400 THEN "raise" ELSE "json"

\* Lines 35-42: the first response; a rate-limited one marks tok
RestResponse1(t) ==
    /\ c_pc[t] = "r_get1"
    /\ \E resp \in HttpResponses :
         /\ c_status' = [c_status EXCEPT ![t] = resp.status]
         /\ IF IsRateLimited(resp)
            THEN /\ cooldown_until' = [cooldown_until EXCEPT ![c_tok[t]] =
                                          MarkedCooldown(c_tok[t], resp)]
                 /\ c_marked' = [c_marked EXCEPT ![t] = @ \cup {c_tok[t]}]
                 /\ c_pc' = [c_pc EXCEPT ![t] = "r_pick2"]
                 /\ UNCHANGED c_outcome
            ELSE /\ c_outcome' = [c_outcome EXCEPT ![t] = RestOutcome(resp.status)]
                 /\ c_pc' = [c_pc EXCEPT ![t] = "r_done"]
                 /\ UNCHANGED <<cooldown_until, c_marked>>
    /\ UNCHANGED <<now, rr_index, budgetVars, c_tok, c_tok2, c_sent, c_errors,
                   lcVars, cmVars, opVars, dataVars>>

RestPick2AnyToken(t) ==
    /\ c_pc[t] = "r_pick2"
    /\ LET p == PickForRest IN
       /\ c_tok2' = [c_tok2 EXCEPT ![t] = p.tok]
       /\ rr_index' = p.rr
       /\ IF TRUE
          THEN /\ c_sent' = [c_sent EXCEPT ![t] = @ + 1]
               /\ c_pc' = [c_pc EXCEPT ![t] = "r_get2"]
               /\ UNCHANGED c_outcome
          ELSE /\ c_outcome' = [c_outcome EXCEPT ![t] = RestOutcome(c_status[t])]
               /\ c_pc' = [c_pc EXCEPT ![t] = "r_done"]
               /\ UNCHANGED c_sent
    /\ UNCHANGED <<now, cooldown_until, budgetVars, c_tok, c_status, c_marked,
                   c_errors, lcVars, cmVars, opVars, dataVars>>

\* Lines 45-47: the second pick; the GET is repeated only with another token
RestPick2(t) ==
    /\ c_pc[t] = "r_pick2"
    /\ LET p == PickForRest IN
       /\ c_tok2' = [c_tok2 EXCEPT ![t] = p.tok]
       /\ rr_index' = p.rr
       /\ IF p.tok # c_tok[t]
          THEN /\ c_sent' = [c_sent EXCEPT ![t] = @ + 1]
               /\ c_pc' = [c_pc EXCEPT ![t] = "r_get2"]
               /\ UNCHANGED c_outcome
          ELSE /\ c_outcome' = [c_outcome EXCEPT ![t] = RestOutcome(c_status[t])]
               /\ c_pc' = [c_pc EXCEPT ![t] = "r_done"]
               /\ UNCHANGED c_sent
    /\ UNCHANGED <<now, cooldown_until, budgetVars, c_tok, c_status, c_marked,
                   c_errors, lcVars, cmVars, opVars, dataVars>>

\* Lines 47-58: the second response replaces the first
RestResponse2(t) ==
    /\ c_pc[t] = "r_get2"
    /\ \E resp2 \in HttpResponses :
         /\ c_status' = [c_status EXCEPT ![t] = resp2.status]
         /\ IF IsRateLimited(resp2)
            THEN /\ cooldown_until' = [cooldown_until EXCEPT ![c_tok2[t]] =
                                          MarkedCooldown(c_tok2[t], resp2)]
                 /\ c_marked' = [c_marked EXCEPT ![t] = @ \cup {c_tok2[t]}]
            ELSE UNCHANGED <<cooldown_until, c_marked>>
         /\ c_outcome' = [c_outcome EXCEPT ![t] = RestOutcome(resp2.status)]
    /\ c_pc' = [c_pc EXCEPT ![t] = "r_done"]
    /\ UNCHANGED <<now, rr_index, budgetVars, c_tok, c_tok2, c_sent, c_errors,
                   lcVars, cmVars, opVars, dataVars>>

\* The call is over: its locals are gone
RestReturn(t) ==
    /\ c_pc[t] = "r_done"
    /\ c_pc' = [c_pc EXCEPT ![t] = "over"]
    /\ c_tok' = [c_tok EXCEPT ![t] = 0]
    /\ c_tok2' = [c_tok2 EXCEPT ![t] = 0]
    /\ c_sent' = [c_sent EXCEPT ![t] = 0]
    /\ c_status' = [c_status EXCEPT ![t] = 0]
    /\ c_marked' = [c_marked EXCEPT ![t] = {}]
    /\ c_outcome' = [c_outcome EXCEPT ![t] = ""]
    /\ c_errors' = [c_errors EXCEPT ![t] = ""]
    /\ UNCHANGED <<poolVars, lcVars, cmVars, opVars, dataVars>>

StepRest(t) ==
    \/ RestStart(t)
    \/ RestResponse1(t)
    \/ RestPick2(t)
    \/ RestResponse2(t)
    \/ RestReturn(t)

NextRest == Tick \/ \E t \in Calls : StepRest(t)

SpecRest == Init /\ [][NextRest]_vars

(***************************************************************************)
(* GitHubPerfClient.graphql, lines 60-122                                  *)
(***************************************************************************)
\* The JSON payload of a response: errors[0].message mentions "rate limit",
\* "abuse", something else, or there are no errors; data.rateLimit is a dict
\* (Some) or not (None)
GqlPayloads ==
    [errors : {"rate limit", "abuse", "other"}, rateLimit : {None}]
    \cup [errors : {"none"}, rateLimit : {None} \cup {Some(rl) : rl \in RateLimitObjs}]

GqlRaise(t) ==
    /\ c_outcome' = [c_outcome EXCEPT ![t] = "raise"]
    /\ c_pc' = [c_pc EXCEPT ![t] = "g_done"]

\* Lines 117-122 on the payload the call ends with
GqlReturnData(t, tok, payload) ==
    /\ IF payload.rateLimit # None
       THEN UpdateGqlBudget(tok, payload.rateLimit[1])
       ELSE UNCHANGED <<cooldown_until, budgetVars>>
    /\ c_outcome' = [c_outcome EXCEPT ![t] = "data"]
    /\ c_pc' = [c_pc EXCEPT ![t] = "g_done"]

\* Lines 90-122 with every errors payload taken for a rate limit
GqlHandlePayloadAnyErrors(t, tok, payload) ==
    /\ c_errors' = [c_errors EXCEPT ![t] = payload.errors]
    /\ IF payload.errors # "none"
       THEN /\ cooldown_until' = [cooldown_until EXCEPT ![tok] =
                                     GqlErrorCooldown(tok)]
            /\ c_pc' = [c_pc EXCEPT ![t] = "g_pick3"]
            /\ UNCHANGED <<budgetVars, c_outcome>>
       ELSE GqlReturnData(t, tok, payload)

\* Lines 90-122 on the payload of the first or the HTTP-retried response
GqlHandlePayload(t, tok, payload) ==
    /\ c_errors' = [c_errors EXCEPT ![t] = payload.errors]
    /\ IF payload.errors \in {"rate limit", "abuse"}
       THEN /\ cooldown_until' = [cooldown_until EXCEPT ![tok] =
                                     GqlErrorCooldown(tok)]
            /\ c_pc' = [c_pc EXCEPT ![t] = "g_pick3"]
            /\ UNCHANGED <<budgetVars, c_outcome>>
       ELSE IF payload.errors # "none"
       THEN /\ GqlRaise(t)
            /\ UNCHANGED <<cooldown_until, budgetVars>>
       ELSE GqlReturnData(t, tok, payload)

\* Line 61: pick_for_graphql, and line 65: the POST is sent
GqlStart(t) ==
    /\ c_pc[t] = "idle"
    /\ \A u \in Calls : u < t => c_pc[u] # "idle"
    /\ LET p == PickForGraphql IN
       /\ c_tok' = [c_tok EXCEPT ![t] = p.tok]
       /\ rr_index' = p.rr
    /\ c_tok2' = [c_tok2 EXCEPT ![t] = 0]
    /\ c_sent' = [c_sent EXCEPT ![t] = 1]
    /\ c_status' = [c_status EXCEPT ![t] = 0]
    /\ c_marked' = [c_marked EXCEPT ![t] = {}]
    /\ c_outcome' = [c_outcome EXCEPT ![t] = ""]
    /\ c_errors' = [c_errors EXCEPT ![t] = ""]
    /\ c_pc' = [c_pc EXCEPT ![t] = "g_post1"]
    /\ UNCHANGED <<now, cooldown_until, budgetVars, lcVars, cmVars, opVars, dataVars>>

\* Lines 65-73 and 86-122: the first response
GqlResponse1(t) ==
    /\ c_pc[t] = "g_post1"
    /\ \E resp \in HttpResponses :
         /\ c_status' = [c_status EXCEPT ![t] = resp.status]
         /\ IF IsRateLimited(resp)
            THEN /\ cooldown_until' = [cooldown_until EXCEPT ![c_tok[t]] =
                                          MarkedCooldown(c_tok[t], resp)]
                 /\ c_marked' = [c_marked EXCEPT ![t] = @ \cup {c_tok[t]}]
                 /\ c_pc' = [c_pc EXCEPT ![t] = "g_pick2"]
                 /\ UNCHANGED <<budgetVars, c_outcome, c_errors>>
            ELSE /\ UNCHANGED c_marked
                 /\ IF resp.status >= 400
                    THEN /\ GqlRaise(t)
                         /\ UNCHANGED <<cooldown_until, budgetVars, c_errors>>
                    ELSE \E payload \in GqlPayloads :
                             GqlHandlePayload(t, c_tok[t], payload)
    /\ UNCHANGED <<now, rr_index, c_tok, c_tok2, c_sent, lcVars, cmVars, opVars, dataVars>>

\* Lines 76-78 and 86-88: the pick after an HTTP rate limit; with the same
\* token again the call ends on the rate-limited response
GqlPick2(t) ==
    /\ c_pc[t] = "g_pick2"
    /\ LET p == PickForGraphql IN
       /\ c_tok2' = [c_tok2 EXCEPT ![t] = p.tok]
       /\ rr_index' = p.rr
       /\ IF p.tok # c_tok[t]
          THEN /\ c_sent' = [c_sent EXCEPT ![t] = @ + 1]
               /\ c_pc' = [c_pc EXCEPT ![t] = "g_post2"]
               /\ UNCHANGED c_outcome
          ELSE /\ GqlRaise(t)
               /\ UNCHANGED c_sent
    /\ UNCHANGED <<now, cooldown_until, budgetVars, c_tok, c_status, c_marked,
                   c_errors, lcVars, cmVars, opVars, dataVars>>

\* Lines 78-122: the response to the HTTP retry; tok, resp = tok2, resp2
GqlResponse2(t) ==
    /\ c_pc[t] = "g_post2"
    /\ c_tok' = [c_tok EXCEPT ![t] = c_tok2[t]]
    /\ \E resp2 \in HttpResponses :
         /\ c_status' = [c_status EXCEPT ![t] = resp2.status]
         /\ IF IsRateLimited(resp2)
            THEN /\ cooldown_until' = [cooldown_until EXCEPT ![c_tok2[t]] =
                                          MarkedCooldown(c_tok2[t], resp2)]
                 /\ c_marked' = [c_marked EXCEPT ![t] = @ \cup {c_tok2[t]}]
                 /\ GqlRaise(t)
                 /\ UNCHANGED <<budgetVars, c_errors>>
            ELSE /\ UNCHANGED c_marked
                 /\ IF resp2.status >= 400
                    THEN /\ GqlRaise(t)
                         /\ UNCHANGED <<cooldown_until, budgetVars, c_errors>>
                    ELSE \E payload \in GqlPayloads :
                             GqlHandlePayload(t, c_tok2[t], payload)
    /\ UNCHANGED <<now, rr_index, c_tok2, c_sent, lcVars, cmVars, opVars, dataVars>>

\* Lines 102-103: the pick after a rate-limit errors payload; the POST is
\* sent whatever token comes back
GqlPick3(t) ==
    /\ c_pc[t] = "g_pick3"
    /\ LET p == PickForGraphql IN
       /\ c_tok2' = [c_tok2 EXCEPT ![t] = p.tok]
       /\ rr_index' = p.rr
    /\ c_sent' = [c_sent EXCEPT ![t] = @ + 1]
    /\ c_pc' = [c_pc EXCEPT ![t] = "g_post3"]
    /\ UNCHANGED <<now, cooldown_until, budgetVars, c_tok, c_status, c_marked,
                   c_outcome, c_errors, lcVars, cmVars, opVars, dataVars>>

\* Lines 103-122: the response to the retry after the errors payload
GqlResponse3(t) ==
    /\ c_pc[t] = "g_post3"
    /\ \E resp2 \in HttpResponses :
         /\ c_status' = [c_status EXCEPT ![t] = resp2.status]
         /\ IF resp2.status >= 400
            THEN /\ GqlRaise(t)
                 /\ UNCHANGED <<cooldown_until, budgetVars, c_tok, c_errors>>
            ELSE \E payload2 \in GqlPayloads :
                    /\ c_errors' = [c_errors EXCEPT ![t] = payload2.errors]
                    /\ IF payload2.errors # "none"
                       THEN /\ GqlRaise(t)
                            /\ UNCHANGED <<cooldown_until, budgetVars, c_tok>>
                       ELSE /\ c_tok' = [c_tok EXCEPT ![t] = c_tok2[t]]
                            /\ GqlReturnData(t, c_tok2[t], payload2)
    /\ UNCHANGED <<now, rr_index, c_tok2, c_sent, c_marked,
                   lcVars, cmVars, opVars, dataVars>>

\* The call is over: its locals are gone
GqlReturn(t) ==
    /\ c_pc[t] = "g_done"
    /\ c_pc' = [c_pc EXCEPT ![t] = "over"]
    /\ c_tok' = [c_tok EXCEPT ![t] = 0]
    /\ c_tok2' = [c_tok2 EXCEPT ![t] = 0]
    /\ c_sent' = [c_sent EXCEPT ![t] = 0]
    /\ c_status' = [c_status EXCEPT ![t] = 0]
    /\ c_marked' = [c_marked EXCEPT ![t] = {}]
    /\ c_outcome' = [c_outcome EXCEPT ![t] = ""]
    /\ c_errors' = [c_errors EXCEPT ![t] = ""]
    /\ UNCHANGED <<poolVars, lcVars, cmVars, opVars, dataVars>>

StepGql(t) ==
    \/ GqlStart(t)
    \/ GqlResponse1(t)
    \/ GqlPick2(t)
    \/ GqlResponse2(t)
    \/ GqlPick3(t)
    \/ GqlResponse3(t)
    \/ GqlReturn(t)

NextGql == Tick \/ \E t \in Calls : StepGql(t)

SpecGql == Init /\ [][NextGql]_vars

\* rest_get_json and graphql calls side by side
NextCalls == Tick \/ \E t \in Calls : StepRest(t) \/ StepGql(t)

SpecCalls == Init /\ [][NextCalls]_vars


(***************************************************************************)
(* github_metrics.collect_many_repos, lines 87-129, and the futures of its *)
(* ThreadPoolExecutor running collect_one_repo, lines 55-84.               *)
(***************************************************************************)
RECURSIVE FilterUrls(_)
\* Line 96: blank and comment lines are dropped
FilterUrls(raw) ==
    IF raw = <<>> THEN <<>>
    ELSE IF Head(raw).kind \in {"blank", "comment"}
    THEN FilterUrls(Tail(raw))
    ELSE <<Head(raw)>> \o FilterUrls(Tail(raw))

RawUrlLists == UNION {[1..n -> RawUrls] : n \in 0..MaxUrls}

Futures == DOMAIN cm_urls

FuturesIn(st) == {i \in Futures : fut_state[i] = st}

\* RepositoryStore._normalize_url: strip().rstrip("/")
StoreNormalizeUrl(url) == RStrip(Strip(url), {"/"})

\* RepositoryStore.add
StoreAdd(repo) ==
    /\ store_by_uuid' = DictPut(store_by_uuid, repo.retrieval_uuid, repo)
    /\ store_by_url' = DictPut(store_by_url, StoreNormalizeUrl(repo.repo_url),
                               repo.retrieval_uuid)

\* component.set_repo_info_for_repo_url over the components of the store
SetRepoInfoForRepoUrl(url, repo) ==
    comp_repo_info' = [c \in Components |->
                          IF c = url.path THEN Some(repo.retrieval_uuid)
                          ELSE comp_repo_info[c]]

\* Lines 96-106: the lists, a new store, and one future per url
CollectStart ==
    /\ cm_pc = "idle"
    /\ \E raw \in RawUrlLists :
         LET urls == FilterUrls(raw) IN
         /\ cm_urls' = urls
         /\ fut_state' = [i \in DOMAIN urls |-> "pending"]
         /\ fut_result' = [i \in DOMAIN urls |-> None]
    /\ cm_handled' = {}
    /\ cm_results' = <<>>
    /\ cm_errors' = <<>>
    /\ store_by_uuid' = EmptyDict
    /\ store_by_url' = EmptyDict
    /\ cm_pc' = "loop"
    /\ UNCHANGED <<comp_repo_info, next_uuid, cm_raised, cm_msg, cm_returned,
                   lcVars, poolVars, callVars, opVars, dataVars>>

\* A worker of the pool takes the oldest queued future
FutureStart(i) ==
    /\ cm_pc \in {"loop", "done"}
    /\ i \in FuturesIn("pending")
    /\ \A j \in FuturesIn("pending") : i <= j
    /\ Cardinality(FuturesIn("running")) < max_workers
    /\ fut_state' = [fut_state EXCEPT ![i] = "running"]
    /\ UNCHANGED <<cm_pc, cm_urls, fut_result, cm_handled, cm_results,
                   cm_errors, store_by_uuid, store_by_url, comp_repo_info,
                   next_uuid, cm_raised, cm_msg, cm_returned,
                   lcVars, poolVars, callVars, opVars, dataVars>>

\* parse_github_repo_url: https://github.com/owner/repo, the owner/repo part
\* kept as the one symbol that is the path of the line
NormUrl(url) == HttpsGithub \o <<url.path>>

\* collect_one_repo: the URL does not parse, graphql() raises or returns no
\* repository, or a RepositoryInfo with a new retrieval_uuid comes back
FutureFinish(i) ==
    /\ i \in FuturesIn("running")
    /\ \E gql \in {"raise", "no repository", "repository"} :
         IF cm_urls[i].kind = "github" /\ gql = "repository"
         THEN /\ fut_state' = [fut_state EXCEPT ![i] = "ok"]
              /\ fut_result' = [fut_result EXCEPT ![i] =
                                   Some([repo_url |-> NormUrl(cm_urls[i]),
                                         retrieval_uuid |-> <<next_uuid>>])]
              /\ next_uuid' = next_uuid + 1
         ELSE /\ fut_state' = [fut_state EXCEPT ![i] = "failed"]
              /\ UNCHANGED <<fut_result, next_uuid>>
    /\ UNCHANGED <<cm_pc, cm_urls, cm_handled, cm_results, cm_errors,
                   store_by_uuid, store_by_url, comp_repo_info, cm_raised,
                   cm_msg, cm_returned, lcVars, poolVars, callVars, opVars, dataVars>>

CollectHandleFailFast(i) ==
    /\ cm_pc = "loop"
    /\ i \in Futures \ cm_handled
    /\ fut_state[i] \in {"ok", "failed"}
    /\ cm_handled' = cm_handled \cup {i}
    /\ IF fut_state[i] = "ok"
       THEN LET repo == fut_result[i][1] IN
            /\ cm_results' = Append(cm_results, repo)
            /\ StoreAdd(repo)
            /\ SetRepoInfoForRepoUrl(cm_urls[i], repo)
            /\ UNCHANGED <<cm_errors, cm_pc, cm_raised, cm_msg>>
       ELSE /\ cm_errors' = Append(cm_errors, cm_urls[i])
            /\ cm_raised' = cm_raised + 1
            /\ cm_msg' = Some([listed |-> 1, more |-> 0])
            /\ cm_pc' = "done"
            /\ UNCHANGED <<cm_results, store_by_uuid, store_by_url,
                           comp_repo_info>>
    /\ UNCHANGED <<cm_urls, fut_state, fut_result, next_uuid,
                   cm_returned, lcVars, poolVars, callVars, opVars, dataVars>>

\* Lines 107-119: as_completed yields a finished future; its result goes to
\* results, the store and the components, its exception to errors
CollectHandle(i) ==
    /\ cm_pc = "loop"
    /\ i \in Futures \ cm_handled
    /\ fut_state[i] \in {"ok", "failed"}
    /\ cm_handled' = cm_handled \cup {i}
    /\ IF fut_state[i] = "ok"
       THEN LET repo == fut_result[i][1] IN
            /\ cm_results' = Append(cm_results, repo)
            /\ StoreAdd(repo)
            /\ SetRepoInfoForRepoUrl(cm_urls[i], repo)
            /\ UNCHANGED <<cm_errors, cm_pc, cm_raised, cm_msg>>
       ELSE /\ cm_errors' = Append(cm_errors, cm_urls[i])
            /\ UNCHANGED <<cm_results, store_by_uuid, store_by_url,
                           comp_repo_info, cm_pc, cm_raised, cm_msg>>
    /\ UNCHANGED <<cm_urls, fut_state, fut_result, next_uuid,
                   cm_returned, lcVars, poolVars, callVars, opVars, dataVars>>

\* Lines 123-125: the message lists errors[:25] and counts the rest
AggregateMsg(errors) ==
    [listed |-> Min(Len(errors), MaxListedErrors),
     more |-> Max(Len(errors) - MaxListedErrors, 0)]

\* Lines 121-129: the loop and the executor are through; raise or return
CollectExit ==
    /\ cm_pc = "loop"
    /\ cm_handled = Futures
    /\ IF cm_errors # <<>>
       THEN /\ cm_msg' = Some(AggregateMsg(cm_errors))
            /\ cm_raised' = cm_raised + 1
            /\ UNCHANGED cm_returned
       ELSE /\ cm_returned' = Some(cm_results)
            /\ UNCHANGED <<cm_msg, cm_raised>>
    /\ cm_pc' = "done"
    /\ UNCHANGED <<cm_urls, fut_state, fut_result, cm_handled, cm_results,
                   cm_errors, store_by_uuid, store_by_url, comp_repo_info,
                   next_uuid, lcVars, poolVars, callVars, opVars, dataVars>>

NextCollect ==
    \/ CollectStart
    \/ \E i \in Futures : FutureStart(i)
    \/ \E i \in Futures : FutureFinish(i)
    \/ \E i \in Futures : CollectHandle(i)
    \/ CollectExit

SpecCollect == Init /\ [][NextCollect]_vars

(***************************************************************************)
(* models.contributor.ContributorStore.  A ContributorInfo is its login,   *)
(* its github_id and obj, which tells the objects apart: the number of the *)
(* call that passed it to add.                                             *)
(***************************************************************************)
Logins == { <<"B", "o", "b">>, <<"b", "o", "b">>, <<" ", "B", "o", "b", " ">>,
            <<"A", "l">>, <<>> }

GithubIds == {1, 2}

\* ContributorStore._norm_login
NormLogin(login) == StrLower(Strip(login))

\* ContributorStore.get_by_login
GetByLogin(login) ==
    IF login = <<>> THEN None
    ELSE Lookup(by_login, NormLogin(login))

\* ContributorStore.get_by_githubid
GetByGithubid(github_id) == Lookup(by_id, github_id)

\* add without lines 58-66, which drop the index entries the new object
\* leaves stale
ContributorStoreAddKeepStale(contributor) ==
    /\ contributor.login # <<>>
    /\ by_login' = DictPut(by_login, NormLogin(contributor.login), contributor)
    /\ by_id' = DictPut(by_id, contributor.github_id, contributor)

\* ContributorStore.add, lines 54-69; line 51 raises on an empty login
ContributorStoreAdd(contributor) ==
    /\ contributor.login # <<>>
    /\ LET login_key == NormLogin(contributor.login)
           github_id == contributor.github_id
           existing == Lookup(by_login, login_key)
           by_id1 == IF existing # None /\ existing[1].github_id # github_id
                     THEN DictPop(by_id, existing[1].github_id)
                     ELSE by_id
           existing_by_id == Lookup(by_id1, github_id)
           by_login1 ==
               IF /\ existing_by_id # None
                  /\ NormLogin(existing_by_id[1].login) # login_key
               THEN DictPop(by_login, NormLogin(existing_by_id[1].login))
               ELSE by_login
       IN /\ by_login' = DictPut(by_login1, login_key, contributor)
          /\ by_id' = DictPut(by_id1, github_id, contributor)

CSAdd ==
    /\ Len(cs_log) < MaxStoreOps
    /\ \E login \in Logins, github_id \in GithubIds :
         LET contributor == [login |-> login, github_id |-> github_id,
                             obj |-> Len(cs_log) + 1]
         IN IF login = <<>>
            THEN /\ cs_log' = Append(cs_log, [op |-> "add", login |-> login,
                                              github_id |-> github_id,
                                              ret |-> "ValueError"])
                 /\ UNCHANGED <<by_login, by_id>>
            ELSE /\ ContributorStoreAdd(contributor)
                 /\ cs_log' = Append(cs_log, [op |-> "add", login |-> login,
                                              github_id |-> github_id,
                                              ret |-> "None"])
    /\ UNCHANGED <<clientVars, rsVars, fnVars, scVars, puVars, pfVars>>

\* ContributorStore.remove_by_login
CSRemoveByLogin ==
    /\ Len(cs_log) < MaxStoreOps
    /\ \E login \in Logins :
         LET key == NormLogin(login)
             existing == Lookup(by_login, key)
             found == login # <<>> /\ existing # None
         IN /\ IF found
               THEN /\ by_login' = DictPop(by_login, key)
                    /\ by_id' = DictPop(by_id, existing[1].github_id)
               ELSE UNCHANGED <<by_login, by_id>>
            /\ cs_log' = Append(cs_log, [op |-> "remove_by_login",
                                         login |-> login, github_id |-> 0,
                                         ret |-> IF found THEN "True"
                                                 ELSE "False"])
    /\ UNCHANGED <<clientVars, rsVars, fnVars, scVars, puVars, pfVars>>

\* ContributorStore.remove_by_githubid
CSRemoveByGithubid ==
    /\ Len(cs_log) < MaxStoreOps
    /\ \E gid \in GithubIds :
         LET existing == Lookup(by_id, gid)
         IN /\ IF existing # None
               THEN /\ by_id' = DictPop(by_id, gid)
                    /\ by_login' = DictPop(by_login,
                                           NormLogin(existing[1].login))
               ELSE UNCHANGED <<by_login, by_id>>
            /\ cs_log' = Append(cs_log, [op |-> "remove_by_githubid",
                                         login |-> <<>>, github_id |-> gid,
                                         ret |-> IF existing # None
                                                 THEN "True" ELSE "False"])
    /\ UNCHANGED <<clientVars, rsVars, fnVars, scVars, puVars, pfVars>>

NextContributorStore ==
    \/ CSAdd
    \/ CSRemoveByLogin
    \/ CSRemoveByGithubid

SpecContributorStore == Init /\ [][NextContributorStore]_vars

(***************************************************************************)
(* models.repo.RepositoryStore called on its own.  A RepositoryInfo is its *)
(* repo_url, its retrieval_uuid (a string: <<>> is "", the default of the  *)
(* field) and obj, which tells the objects apart.                          *)
(***************************************************************************)
StoreUrls == { <<"a">>, <<"a", "/">>, <<" ", "a", "/", "/", " ">>,
               <<"b">>, <<"b", "/">> }

Uuids == { <<>>, <<1>>, <<2>> }

\* RepositoryStore.get_by_uuid
GetByUuid(retrieval_uuid) == Lookup(store_by_uuid, retrieval_uuid)

\* RepositoryStore.get_by_url: "if rid" fails on None and on ""
GetByUrl(repo_url) ==
    LET rid == DictGet(store_by_url, StoreNormalizeUrl(repo_url), None)
    IN IF rid # <<>> THEN Lookup(store_by_uuid, rid) ELSE None

RSAdd ==
    /\ Len(rs_log) < MaxStoreOps
    /\ \E url \in StoreUrls, uuid \in Uuids :
         LET repo == [repo_url |-> url, retrieval_uuid |-> uuid,
                      obj |-> Len(rs_log) + 1]
         IN /\ StoreAdd(repo)
            /\ rs_log' = Append(rs_log, repo)
    /\ UNCHANGED <<lcVars, poolVars, callVars, opVars, csVars, fnVars, scVars,
                   puVars, pfVars>>
    /\ UNCHANGED <<cm_pc, cm_urls, fut_state, fut_result, cm_handled,
                   cm_results, cm_errors, comp_repo_info, next_uuid,
                   cm_raised, cm_msg, cm_returned>>

NextRepositoryStore == RSAdd

SpecRepositoryStore == Init /\ [][NextRepositoryStore]_vars

(***************************************************************************)
(* repo_metrics.prevalence: the step functions.  A fraction is its number  *)
(* of tenths (0.7 is 7), an age its number of hundredths of a year (0.25   *)
(* is 25).  The last elif of each function holds whenever it is reached.   *)
(***************************************************************************)
StarsScoreInclusive(stars) ==
    IF stars <= 5 THEN 0
    ELSE IF stars <= 10 THEN 1
    ELSE IF stars <= 25 THEN 2
    ELSE IF stars <= 35 THEN 3
    ELSE IF stars <= 45 THEN 4
    ELSE IF stars <= 55 THEN 5
    ELSE IF stars <= 65 THEN 6
    ELSE IF stars <= 85 THEN 7
    ELSE IF stars <= 95 THEN 8
    ELSE IF stars <= 100 THEN 9
    ELSE 10

StarsScore(stars) ==
    IF stars < 5 THEN 0
    ELSE IF stars < 10 THEN 1
    ELSE IF stars < 25 THEN 2
    ELSE IF stars < 35 THEN 3
    ELSE IF stars < 45 THEN 4
    ELSE IF stars < 55 THEN 5
    ELSE IF stars < 65 THEN 6
    ELSE IF stars < 85 THEN 7
    ELSE IF stars < 95 THEN 8
    ELSE IF stars < 100 THEN 9
    ELSE 10

ForksScore(forks) ==
    IF forks < 2 THEN 0
    ELSE IF forks < 3 THEN 1
    ELSE IF forks < 7 THEN 2
    ELSE IF forks < 10 THEN 3
    ELSE IF forks < 13 THEN 4
    ELSE IF forks < 17 THEN 5
    ELSE IF forks < 23 THEN 6
    ELSE IF forks < 30 THEN 7
    ELSE IF forks < 37 THEN 8
    ELSE 10

MaturityScore(maturity) ==
    IF maturity < 25 THEN 0
    ELSE IF maturity < 50 THEN 2
    ELSE IF maturity < 100 THEN 4
    ELSE IF maturity < 200 THEN 6
    ELSE IF maturity < 300 THEN 8
    ELSE IF maturity < 400 THEN 9
    ELSE 10

LastUpdatedScore(last_updated) ==
    IF last_updated >= 300 THEN 0
    ELSE IF last_updated > 100 THEN 2
    ELSE IF last_updated > 50 THEN 4
    ELSE IF last_updated > 25 THEN 6
    ELSE IF last_updated > 10 THEN 8
    ELSE 10

ReleasesScore(releases) ==
    IF releases = 0 THEN 0
    ELSE IF releases < 2 THEN 1
    ELSE IF releases < 3 THEN 2
    ELSE IF releases < 7 THEN 3
    ELSE IF releases < 13 THEN 4
    ELSE IF releases < 17 THEN 5
    ELSE IF releases < 20 THEN 6
    ELSE IF releases < 23 THEN 7
    ELSE IF releases < 27 THEN 8
    ELSE 10

ClosedIssuesScore(closed_issues) ==
    IF closed_issues = 0 THEN 0
    ELSE IF closed_issues < 7 THEN 1
    ELSE IF closed_issues < 17 THEN 2
    ELSE IF closed_issues < 33 THEN 3
    ELSE IF closed_issues < 50 THEN 4
    ELSE IF closed_issues < 100 THEN 6
    ELSE IF closed_issues < 133 THEN 8
    ELSE IF closed_issues < 167 THEN 9
    ELSE 10

IsScorePassingAbove(unclass_score) ==
    IF unclass_score # 0
    THEN IF unclass_score > 70 THEN "True"
         ELSE IF unclass_score > 40 THEN "Undetermined"
         ELSE "False"
    ELSE "False"

\* analysis.is_score_passing: "if unclass_score" fails on 0
IsScorePassing(unclass_score) ==
    IF unclass_score # 0
    THEN IF unclass_score >= 70 THEN "True"
         ELSE IF unclass_score >= 40 THEN "Undetermined"
         ELSE "False"
    ELSE "False"

Counts == 0..MaxCount
YearCents == 0..MaxYearCents
ScoreValues == 0..MaxScore

FnVarsOnly == UNCHANGED <<clientVars, csVars, rsVars, scVars, puVars, pfVars>>

CallStarsScore ==
    /\ \E stars \in Counts :
         fn_call' = [fn |-> "stars_score", arg |-> stars,
                     ret |-> StarsScore(stars)]
    /\ FnVarsOnly

CallForksScore ==
    /\ \E forks \in Counts :
         fn_call' = [fn |-> "forks_score", arg |-> forks,
                     ret |-> ForksScore(forks)]
    /\ FnVarsOnly

CallMaturityScore ==
    /\ \E maturity \in YearCents :
         fn_call' = [fn |-> "maturity_score", arg |-> maturity,
                     ret |-> MaturityScore(maturity)]
    /\ FnVarsOnly

CallLastUpdatedScore ==
    /\ \E last_updated \in YearCents :
         fn_call' = [fn |-> "last_updated_score", arg |-> last_updated,
                     ret |-> LastUpdatedScore(last_updated)]
    /\ FnVarsOnly

CallReleasesScore ==
    /\ \E releases \in Counts :
         fn_call' = [fn |-> "releases_score", arg |-> releases,
                     ret |-> ReleasesScore(releases)]
    /\ FnVarsOnly

CallClosedIssuesScore ==
    /\ \E closed_issues \in Counts :
         fn_call' = [fn |-> "closed_issues_score", arg |-> closed_issues,
                     ret |-> ClosedIssuesScore(closed_issues)]
    /\ FnVarsOnly

CallIsScorePassing ==
    /\ \E unclass_score \in ScoreValues :
         fn_call' = [fn |-> "is_score_passing", arg |-> unclass_score,
                     ret |-> IsScorePassing(unclass_score)]
    /\ FnVarsOnly

NextScoreFunctions ==
    \/ CallStarsScore
    \/ CallForksScore
    \/ CallMaturityScore
    \/ CallLastUpdatedScore
    \/ CallReleasesScore
    \/ CallClosedIssuesScore
    \/ CallIsScorePassing

SpecScoreFunctions == Init /\ [][NextScoreFunctions]_vars

(***************************************************************************)
(* repo_metrics.analysis.calculate_repo_scores over a store of one         *)
(* repository.  The constants module is not among the sources: its weights *)
(* are "fixed integer weights".  A date is an instant in hundredths of a   *)
(* year, or a text fromisoformat rejects.                                  *)
(***************************************************************************)
WeightChoices ==
    { [STARS_WEIGHT |-> 20, FORKS_WEIGHT |-> 20, MATURITY_WEIGHT |-> 20,
       LAST_UPDATED_WEIGHT |-> 20, PREVALENCE_WEIGHT |-> 20,
       BONUS_ORG_WEIGHT |-> 10],
      [STARS_WEIGHT |-> 25, FORKS_WEIGHT |-> 15, MATURITY_WEIGHT |-> 15,
       LAST_UPDATED_WEIGHT |-> 15, PREVALENCE_WEIGHT |-> 25,
       BONUS_ORG_WEIGHT |-> 5] }

\* The keys of input/trusted_orgs.json
TrustedOrgs == { <<"o", "r", "g">> }

ScoredUrls == { HttpsGithub \o <<"O", "r", "g", "/", "r">>,
                HttpsGithub \o <<"x", "/", "r">> }

Dates == [kind : {"iso"},
          at : {ClockStart - 399, ClockStart - 24, ClockStart - 10,
                ClockStart + 5}]
         \cup {[kind |-> "text", at |-> 0], [kind |-> "empty", at |-> 0]}

RepositoryInfos ==
    [repo_url : ScoredUrls, stars : {4, 5, 100}, forks : {1, 37},
     releases_count : {0, 1, 27}, tags_count : {0, 2},
     closed_issues_count : {0, 6, 167},
     created_at : {d \in Dates : d.at # ClockStart - 10},
     updated_at : {d \in Dates : d.at # ClockStart - 399}]

\* round(weight * fraction): the product is weight * tenths / 10, and round
\* takes a half to the even neighbour
Round(weight, tenths) ==
    LET q == (weight * tenths) \div 10
        r == (weight * tenths) % 10
    IN IF r < 5 THEN q
       ELSE IF r > 5 THEN q + 1
       ELSE IF q % 2 = 0 THEN q ELSE q + 1

\* years_since_date_calculator with a date that does not parse taken for
\* the start of the calendar
YearsSinceDateCalculatorUnparsedOld(repo_date, clock) ==
    IF repo_date.kind # "iso" THEN clock
    ELSE IF clock - repo_date.at < 0 THEN 0
    ELSE clock - repo_date.at

\* years_since_date_calculator, in hundredths of a year: _parse_iso gives
\* None for an empty string and for one fromisoformat rejects, and
\* _years_between gives 0.0 for None and for a date after now
YearsSinceDateCalculator(repo_date, clock) ==
    IF repo_date.kind \in {"empty", "text"} THEN 0
    ELSE IF clock - repo_date.at < 0 THEN 0
    ELSE clock - repo_date.at

\* tags_or_releases_prevalence_calculator
TagsOrReleasesPrevalenceCalculator(repo_data) ==
    IF repo_data.releases_count > 0
    THEN Round(weights[1].PREVALENCE_WEIGHT,
               ReleasesScore(repo_data.releases_count))
    ELSE IF repo_data.tags_count > 0
    THEN Round(weights[1].PREVALENCE_WEIGHT,
               ReleasesScore(repo_data.tags_count))
    ELSE 0

\* get_prevalence_score without the comparison
GetPrevalenceScoreClosedIssues(closed_issues_score, tags_or_releases_prevalence_score) ==
    closed_issues_score

\* get_prevalence_score
GetPrevalenceScore(closed_issues_score, tags_or_releases_prevalence_score) ==
    IF tags_or_releases_prevalence_score > closed_issues_score
    THEN tags_or_releases_prevalence_score
    ELSE IF closed_issues_score > tags_or_releases_prevalence_score
    THEN closed_issues_score
    ELSE tags_or_releases_prevalence_score

\* urlparse(url).path of the https URLs the store holds
UrlPath(url) ==
    LET rest == SubSeq(url, 9, Len(url))
        slash == FirstIndex(rest, "/")
    IN IF slash = 0 THEN <<>> ELSE SubSeq(rest, slash, Len(rest))

\* prevalence.trusted_org_bonus
TrustedOrgBonus(github_url) ==
    LET path == RStrip(LStrip(UrlPath(github_url), {"/"}), {"/"})
        slash == FirstIndex(path, "/")
        component_org == IF slash = 0 THEN path
                         ELSE SubSeq(path, 1, slash - 1)
    IN IF \E trusted_org \in TrustedOrgs :
             StrLower(component_org) = StrLower(trusted_org)
       THEN weights[1].BONUS_ORG_WEIGHT
       ELSE 0

\* The body of the loop without the bonus in the sum
RepositoryScoresSumOfFive(repo_data, clock) ==
    LET w == weights[1]
        stars_score_final == Round(w.STARS_WEIGHT, StarsScore(repo_data.stars))
        forks_score_final == Round(w.FORKS_WEIGHT, ForksScore(repo_data.forks))
        created_date_years ==
            YearsSinceDateCalculator(repo_data.created_at, clock)
        maturity_score_final ==
            Round(w.MATURITY_WEIGHT, MaturityScore(created_date_years))
        last_updated_date_years ==
            YearsSinceDateCalculator(repo_data.updated_at, clock)
        last_updated_score_final ==
            Round(w.LAST_UPDATED_WEIGHT,
                  LastUpdatedScore(last_updated_date_years))
        closed_issues_score_final ==
            Round(w.PREVALENCE_WEIGHT,
                  ClosedIssuesScore(repo_data.closed_issues_count))
        tags_or_releases_prevalence_score ==
            TagsOrReleasesPrevalenceCalculator(repo_data)
        prevalence_score ==
            GetPrevalenceScore(closed_issues_score_final,
                               tags_or_releases_prevalence_score)
        trusted_org_score == TrustedOrgBonus(repo_data.repo_url)
        unclass_score == stars_score_final + forks_score_final
                         + maturity_score_final + last_updated_score_final
                         + prevalence_score
    IN [stars_score |-> stars_score_final,
        forks_score |-> forks_score_final,
        maturity_score |-> maturity_score_final,
        last_updated_score |-> last_updated_score_final,
        prevalence_score |-> prevalence_score,
        trusted_org_bonus |-> trusted_org_score,
        unclass_score |-> unclass_score,
        passes_sia |-> IsScorePassing(unclass_score)]

\* calculate_repo_scores, lines 84-107: the RepositoryScores of a repository
RepositoryScores(repo_data, clock) ==
    LET w == weights[1]
        stars_score_final == Round(w.STARS_WEIGHT, StarsScore(repo_data.stars))
        forks_score_final == Round(w.FORKS_WEIGHT, ForksScore(repo_data.forks))
        created_date_years ==
            YearsSinceDateCalculator(repo_data.created_at, clock)
        maturity_score_final ==
            Round(w.MATURITY_WEIGHT, MaturityScore(created_date_years))
        last_updated_date_years ==
            YearsSinceDateCalculator(repo_data.updated_at, clock)
        last_updated_score_final ==
            Round(w.LAST_UPDATED_WEIGHT,
                  LastUpdatedScore(last_updated_date_years))
        closed_issues_score_final ==
            Round(w.PREVALENCE_WEIGHT,
                  ClosedIssuesScore(repo_data.closed_issues_count))
        tags_or_releases_prevalence_score ==
            TagsOrReleasesPrevalenceCalculator(repo_data)
        prevalence_score ==
            GetPrevalenceScore(closed_issues_score_final,
                               tags_or_releases_prevalence_score)
        trusted_org_score == TrustedOrgBonus(repo_data.repo_url)
        unclass_score == stars_score_final + forks_score_final
                         + maturity_score_final + last_updated_score_final
                         + prevalence_score + trusted_org_score
    IN [stars_score |-> stars_score_final,
        forks_score |-> forks_score_final,
        maturity_score |-> maturity_score_final,
        last_updated_score |-> last_updated_score_final,
        prevalence_score |-> prevalence_score,
        trusted_org_bonus |-> trusted_org_score,
        unclass_score |-> unclass_score,
        passes_sia |-> IsScorePassing(unclass_score)]

\* The state main() calls calculate_repo_scores in: the constants module
\* imported and the repository store filled
ScoringStart ==
    /\ sc_repo = None
    /\ \E w \in WeightChoices, repo_data \in RepositoryInfos :
         /\ weights' = Some(w)
         /\ sc_repo' = Some(repo_data)
    /\ UNCHANGED <<today, repo_scores, prev_scores, sc_runs>>
    /\ UNCHANGED <<clientVars, csVars, rsVars, fnVars, puVars, pfVars>>

\* calculate_repo_scores; each call of years_since_date_calculator reads
\* the clock, line 52
CalculateRepoScores ==
    /\ sc_repo # None
    /\ sc_runs < MaxRuns
    /\ repo_scores' = Some(RepositoryScores(sc_repo[1], today))
    /\ prev_scores' = repo_scores
    /\ sc_runs' = sc_runs + 1
    /\ UNCHANGED <<weights, sc_repo, today>>
    /\ UNCHANGED <<clientVars, csVars, rsVars, fnVars, puVars, pfVars>>

\* Time goes by
ClockTick ==
    /\ today < ClockStart + MaxClockTicks
    /\ today' = today + 1
    /\ UNCHANGED <<weights, sc_repo, repo_scores, prev_scores, sc_runs>>
    /\ UNCHANGED <<clientVars, csVars, rsVars, fnVars, puVars, pfVars>>

NextScoring ==
    \/ ScoringStart
    \/ CalculateRepoScores
    \/ ClockTick

SpecScoring == Init /\ [][NextScoring]_vars

(***************************************************************************)
(* github_metrics.parse_github_repo_url, lines 23-49, called on its own.   *)
(***************************************************************************)
HttpGithub == <<"h", "t", "t", "p", ":", "/", "/", "g", "i", "t", "h", "u",
               "b", ".", "c", "o", "m", "/">>

GitAtGithub == <<"g", "i", "t", "@", "g", "i", "t", "h", "u", "b", ".", "c",
                "o", "m", ":">>

DotGit == <<".", "g", "i", "t">>

\* ([^/]+)/([^/]+?)(?:\.git)?$ and, with slash_allowed, (?:\.git)?/?$ on
\* what follows the host: the groups, or None
OwnerRepoMatch(rest, slash_allowed) ==
    LET slash == FirstIndex(rest, "/")
        after == SubSeq(rest, slash + 1, Len(rest))
        segment == IF slash_allowed /\ after # <<>> /\ after[Len(after)] = "/"
                   THEN SubSeq(after, 1, Len(after) - 1)
                   ELSE after
        repo == IF EndsWith(segment, DotGit) /\ Len(segment) > Len(DotGit)
                THEN SubSeq(segment, 1, Len(segment) - Len(DotGit))
                ELSE segment
    IN IF slash > 1 /\ segment # <<>> /\ FirstIndex(segment, "/") = 0
       THEN Some([owner |-> SubSeq(rest, 1, slash - 1), repo |-> repo])
       ELSE None

\* re.match(prefix, u, flags=re.IGNORECASE) for a prefix without letters
\* in upper case
MatchesIgnoreCase(u, prefix) ==
    /\ Len(u) >= Len(prefix)
    /\ StrLower(SubSeq(u, 1, Len(prefix))) = prefix

ParsedUrl(owner, repo) ==
    [kind |-> "return",
     norm_url |-> HttpsGithub \o owner \o <<"/">> \o repo,
     owner |-> owner, name |-> repo]

\* parse_github_repo_url that matches the host in the letter case given
ParseGithubRepoUrlCaseSensitive(url) ==
    LET u == Strip(url)
        ssh_m == IF StartsWith(u, GitAtGithub)
                 THEN OwnerRepoMatch(SubSeq(u, Len(GitAtGithub) + 1, Len(u)),
                                     FALSE)
                 ELSE None
        u2 == IF StartsWith(u, HttpGithub)
              THEN HttpsGithub \o SubSeq(u, Len(HttpGithub) + 1, Len(u))
              ELSE u
        m == IF StartsWith(u2, HttpsGithub)
             THEN OwnerRepoMatch(SubSeq(u2, Len(HttpsGithub) + 1, Len(u2)),
                                 TRUE)
             ELSE IF StartsWith(u2, HttpGithub)
             THEN OwnerRepoMatch(SubSeq(u2, Len(HttpGithub) + 1, Len(u2)),
                                 TRUE)
             ELSE None
    IN IF ssh_m # None THEN ParsedUrl(ssh_m[1].owner, ssh_m[1].repo)
       ELSE IF m = None
       THEN [kind |-> "ValueError", logged_url |-> url]
       ELSE ParsedUrl(m[1].owner, m[1].repo)

\* parse_github_repo_url; the message it hands to logger.error ends with
\* the url it was called with
ParseGithubRepoUrl(url) ==
    LET u == Strip(url)
        ssh_m == IF StartsWith(u, GitAtGithub)
                 THEN OwnerRepoMatch(SubSeq(u, Len(GitAtGithub) + 1, Len(u)),
                                     FALSE)
                 ELSE None
        u2 == IF MatchesIgnoreCase(u, HttpGithub)
              THEN HttpsGithub \o SubSeq(u, Len(HttpGithub) + 1, Len(u))
              ELSE u
        m == IF MatchesIgnoreCase(u2, HttpsGithub)
             THEN OwnerRepoMatch(SubSeq(u2, Len(HttpsGithub) + 1, Len(u2)),
                                 TRUE)
             ELSE IF MatchesIgnoreCase(u2, HttpGithub)
             THEN OwnerRepoMatch(SubSeq(u2, Len(HttpGithub) + 1, Len(u2)),
                                 TRUE)
             ELSE None
    IN IF ssh_m # None THEN ParsedUrl(ssh_m[1].owner, ssh_m[1].repo)
       ELSE IF m = None
       THEN [kind |-> "ValueError", logged_url |-> url]
       ELSE ParsedUrl(m[1].owner, m[1].repo)

\* The urls the function is called with: a host part, what follows it, an
\* ending, and whitespace around it or none
UrlHosts ==
    { HttpsGithub, HttpGithub, GitAtGithub,
      <<"H", "T", "T", "P", "S", ":", "/", "/", "G", "i", "t", "H", "u", "b",
        ".", "c", "o", "m", "/">>,
      <<"H", "t", "t", "p", ":", "/", "/", "g", "i", "t", "h", "u", "b", ".",
        "C", "O", "M", "/">>,
      <<"G", "i", "t", "@", "g", "i", "t", "h", "u", "b", ".", "c", "o", "m",
        ":">>,
      <<"h", "t", "t", "p", "s", ":", "/", "/", "g", "i", "t", "l", "a", "b",
        ".", "c", "o", "m", "/">>,
      <<"h", "t", "t", "p", "s", ":", "/", "/", "g", "i", "t", "h", "u", "b",
        "x", "c", "o", "m", "/">>,
      <<"f", "t", "p", ":", "/", "/", "g", "i", "t", "h", "u", "b", ".", "c",
        "o", "m", "/">>,
      <<"x">> \o HttpsGithub,
      <<>> }

UrlPaths == { <<"O", "/", "R">>, <<"o", "r", "g", "/", "l", "i", "b">>,
              <<"O">>, <<"O", "/">>, <<"/", "R">>, <<"O", "/", "R", "/", "x">>,
              <<>> }

UrlEndings == { <<>>, DotGit, <<"/">>, DotGit \o <<"/">>, <<"/", "/">>,
                DotGit \o DotGit }

UrlPaddings == { <<>>, <<" ">>, <<"\n">> }

ParseInputs ==
    { pad \o host \o path \o ending \o pad :
        host \in UrlHosts, path \in UrlPaths, ending \in UrlEndings,
        pad \in UrlPaddings }

CallParseGithubRepoUrl ==
    /\ parse_call = None
    /\ \E url \in ParseInputs :
         parse_call' = Some([url |-> url, ret |-> ParseGithubRepoUrl(url)])
    /\ UNCHANGED <<clientVars, csVars, rsVars, fnVars, scVars, pfVars>>

NextParseUrl == CallParseGithubRepoUrl

SpecParseUrl == Init /\ [][NextParseUrl]_vars

(***************************************************************************)
(* list_contributors, lines 352-398: the enrichment step of a fetcher,     *)
(* with _fetch_user_profiles_gql (lines 176-258) and                       *)
(* get_user_profile_cached (lines 124-139).  A profile is "gql" (the node  *)
(* GraphQL returned), "rest" (the dict /users/{login} returned) or "empty" *)
(* (the empty dict).  The logins of a step fit one chunk of                *)
(* gql_batch_size.                                                         *)
(***************************************************************************)
ProfileLogins == { <<"A">>, <<"a">>, <<"b">>, <<" ">> }

Batches == UNION {[1..n -> ProfileLogins] : n \in 1..MaxLogins}

RECURSIVE CleanedFrom(_, _)
\* Lines 188-200: strip, drop the blank, keep the first of each lower case
CleanedFrom(logins, seen) ==
    IF logins = <<>> THEN <<>>
    ELSE LET stripped == Strip(Head(logins))
             key == StrLower(stripped)
         IN IF stripped = <<>> \/ key \in seen
            THEN CleanedFrom(Tail(logins), seen)
            ELSE <<stripped>> \o CleanedFrom(Tail(logins), seen \cup {key})

Cleaned(logins) == CleanedFrom(logins, {})

LoginKeys(batch) == {StrLower(batch[i]) : i \in DOMAIN batch}

\* dict.update(other)
DictUpdate(d, other) ==
    [k \in (DOMAIN d) \cup (DOMAIN other) |->
        IF k \in DOMAIN other THEN other[k] ELSE d[k]]

RECURSIVE MissingFromRetryEmpty(_, _)
\* Lines 358-364 with a test for a profile that holds something
MissingFromRetryEmpty(logins, cache) ==
    IF logins = <<>> THEN <<>>
    ELSE IF DictGet(cache, StrLower(Head(logins)), "empty") # "empty"
    THEN MissingFromRetryEmpty(Tail(logins), cache)
    ELSE <<Head(logins)>> \o MissingFromRetryEmpty(Tail(logins), cache)

RECURSIVE MissingFrom(_, _)
\* Lines 358-364: the logins whose cached profile is None
MissingFrom(logins, cache) ==
    IF logins = <<>> THEN <<>>
    ELSE IF StrLower(Head(logins)) \in DOMAIN cache
    THEN MissingFrom(Tail(logins), cache)
    ELSE <<Head(logins)>> \o MissingFrom(Tail(logins), cache)

\* Lines 380-382: the REST fallback is taken when batch_profiles is empty
AfterFetch(profiles) ==
    IF DOMAIN profiles = {} THEN "fallback" ELSE "store"

PfUnchangedBy(t) ==
    UNCHANGED <<clientVars, csVars, rsVars, fnVars, scVars, puVars>>

\* Lines 354-376 and 186-203: the logins missing from the cache go, as one
\* batch, to _fetch_user_profiles_gql, which returns {} at once if no
\* login is left
ProfilesStart(t) ==
    /\ pf_pc[t] \in {"idle", "cached"}
    /\ pf_count < MaxEnrichments
    /\ pf_count' = pf_count + 1
    /\ \E logins \in Batches :
         LET missing == MissingFrom(logins, user_profile_cache) IN
         /\ pf_logins' = [pf_logins EXCEPT ![t] = logins]
         /\ pf_known' = [pf_known EXCEPT ![t] =
                LoginKeys(logins) \cap DOMAIN user_profile_cache]
         /\ pf_batch' = [pf_batch EXCEPT ![t] = missing]
         /\ IF missing = <<>>
            THEN /\ pf_stack' = [pf_stack EXCEPT ![t] = <<>>]
                 /\ pf_pc' = [pf_pc EXCEPT ![t] = "cached"]
            ELSE IF Cleaned(missing) = <<>>
            THEN /\ pf_stack' = [pf_stack EXCEPT ![t] = <<>>]
                 /\ pf_pc' = [pf_pc EXCEPT ![t] = AfterFetch(EmptyDict)]
            ELSE /\ pf_stack' = [pf_stack EXCEPT ![t] = <<Cleaned(missing)>>]
                 /\ pf_pc' = [pf_pc EXCEPT ![t] = "run_split"]
    /\ pf_first' = [pf_first EXCEPT ![t] = ""]
    /\ batch_profiles' = [batch_profiles EXCEPT ![t] = EmptyDict]
    /\ pf_i' = [pf_i EXCEPT ![t] = 1]
    /\ pf_gql' = [pf_gql EXCEPT ![t] = {}]
    /\ pf_rest' = [pf_rest EXCEPT ![t] = {}]
    /\ pf_failed' = [pf_failed EXCEPT ![t] = {}]
    /\ UNCHANGED user_profile_cache
    /\ PfUnchangedBy(t)

\* run_split, lines 246-258, on the batch on top: run_batch returns a node
\* or {} for each login, or graphql raises and the batch is split, a batch
\* of one getting the empty profile
ProfilesRunSplit(t) ==
    /\ pf_pc[t] = "run_split"
    /\ LET batch == Head(pf_stack[t])
           mid == Len(batch) \div 2
       IN \E raises \in BOOLEAN :
            /\ pf_first' = [pf_first EXCEPT ![t] =
                   IF @ # "" THEN @
                   ELSE IF raises THEN "raised" ELSE "returned"]
            /\ pf_gql' = [pf_gql EXCEPT ![t] = @ \cup LoginKeys(batch)]
            /\ IF ~raises
               THEN \E found \in SUBSET LoginKeys(batch) :
                      /\ batch_profiles' = [batch_profiles EXCEPT ![t] =
                             DictUpdate(@,
                                 [k \in LoginKeys(batch) |->
                                     IF k \in found THEN "gql" ELSE "empty"])]
                      /\ pf_failed' = [pf_failed EXCEPT ![t] =
                             @ \cup (LoginKeys(batch) \ found)]
                      /\ pf_stack' = [pf_stack EXCEPT ![t] = Tail(@)]
               ELSE IF Len(batch) <= 1
               THEN /\ batch_profiles' = [batch_profiles EXCEPT ![t] =
                           DictPut(@, StrLower(batch[1]), "empty")]
                    /\ pf_failed' = [pf_failed EXCEPT ![t] =
                           @ \cup {StrLower(batch[1])}]
                    /\ pf_stack' = [pf_stack EXCEPT ![t] = Tail(@)]
               ELSE /\ pf_stack' = [pf_stack EXCEPT ![t] =
                           <<SubSeq(batch, 1, mid),
                             SubSeq(batch, mid + 1, Len(batch))>> \o Tail(@)]
                    /\ UNCHANGED <<batch_profiles, pf_failed>>
    /\ pf_pc' = [pf_pc EXCEPT ![t] =
           IF pf_stack'[t] = <<>> THEN AfterFetch(batch_profiles'[t])
           ELSE "run_split"]
    /\ UNCHANGED <<pf_logins, pf_known, pf_batch, pf_i, pf_rest, pf_count,
                   user_profile_cache>>
    /\ PfUnchangedBy(t)

\* Lines 383-390 and 124-139: get_user_profile_cached for the next login of
\* the batch: the cached profile if there is one, else the dict
\* /users/{login} returns, stored in the cache, or {} when the request
\* raises
ProfilesFallback(t) ==
    /\ pf_pc[t] = "fallback"
    /\ pf_i[t] <= Len(pf_batch[t])
    /\ LET key == StrLower(pf_batch[t][pf_i[t]]) IN
       IF key \in DOMAIN user_profile_cache
       THEN /\ batch_profiles' = [batch_profiles EXCEPT ![t] =
                   DictPut(@, key, user_profile_cache[key])]
            /\ pf_failed' = [pf_failed EXCEPT ![t] = @ \ {key}]
            /\ UNCHANGED <<user_profile_cache, pf_rest>>
       ELSE \E response \in {"dict", "not_dict", "raises"} :
              LET prof == IF response = "dict" THEN "rest" ELSE "empty" IN
              /\ pf_rest' = [pf_rest EXCEPT ![t] = @ \cup {key}]
              /\ pf_failed' = [pf_failed EXCEPT ![t] =
                     IF response = "dict" THEN @ \ {key} ELSE @ \cup {key}]
              /\ batch_profiles' = [batch_profiles EXCEPT ![t] =
                     DictPut(@, key, prof)]
              /\ user_profile_cache' =
                     IF response = "raises" THEN user_profile_cache
                     ELSE DictPut(user_profile_cache, key, prof)
    /\ pf_i' = [pf_i EXCEPT ![t] = @ + 1]
    /\ pf_pc' = [pf_pc EXCEPT ![t] =
           IF pf_i[t] = Len(pf_batch[t]) THEN "store" ELSE "fallback"]
    /\ UNCHANGED <<pf_logins, pf_known, pf_batch, pf_stack, pf_first, pf_gql,
                   pf_count>>
    /\ PfUnchangedBy(t)

\* Lines 392-397: the profiles of the batch go to the cache
StoredProfiles(t) ==
    [k \in (DOMAIN user_profile_cache) \cup LoginKeys(pf_batch[t]) |->
        IF k \in LoginKeys(pf_batch[t])
        THEN DictGet(batch_profiles[t], k, "empty")
        ELSE user_profile_cache[k]]

ProfilesStore(t) ==
    /\ pf_pc[t] = "store"
    /\ user_profile_cache' = StoredProfiles(t)
    /\ pf_pc' = [pf_pc EXCEPT ![t] = "cached"]
    /\ UNCHANGED <<pf_logins, pf_known, pf_batch, pf_stack, pf_first,
                   batch_profiles, pf_i, pf_gql, pf_rest, pf_failed, pf_count>>
    /\ PfUnchangedBy(t)

StepProfiles(t) ==
    \/ ProfilesStart(t)
    \/ ProfilesRunSplit(t)
    \/ ProfilesFallback(t)
    \/ ProfilesStore(t)

NextProfiles == \E t \in Threads : StepProfiles(t)

SpecProfiles == Init /\ [][NextProfiles]_vars

InCall(t) ==
    lc_pc[t] \in {"wait", "waited", "page", "enrich", "run_split", "finally",
                 "assign"}

(***************************************************************************)
(* C1 as stated: for every cache key exactly one caller executes the fetch *)
(* path and all callers of the key receive the same result list.           *)
(***************************************************************************)
C1_AllCallersSameList ==
    \A k \in Keys :
        /\ fetch_count[k] <= 1
        /\ Cardinality(returned[k]) <= 1

(***************************************************************************)
(* C1 amended: for every cache key at most one caller ever executes the    *)
(* fetch path, exactly one once any caller is in a call for the key, and   *)
(* every caller that returns a list returns the list the fetcher cached,   *)
(* except that a waiter whose wait timed out may return an empty list.     *)
(***************************************************************************)
C1_SingleFlight ==
    /\ \A k \in Keys : fetch_count[k] <= 1
    /\ \A t \in Threads :
          InCall(t) => fetch_count[CurKey(t)] = 1
    /\ \A t \in Threads :
          lc_pc[t] = "assign" =>
              \/ /\ CurKey(t) \in DOMAIN contributors_cache
                 /\ lc_ret[t] = contributors_cache[CurKey(t)]
              \/ /\ lc_timed_out[t]
                 /\ lc_ret[t] = 0

\* Two callers naming one repository in different case: one fetched, the
\* other waited for the event, and both hold the same non-empty list.
C1_Witness ==
    \E t, u \in Threads :
        /\ t # u
        /\ lc_pc[t] = "assign" /\ lc_pc[u] = "assign"
        /\ lc_repo[t] # lc_repo[u]
        /\ CurKey(t) = CurKey(u)
        /\ lc_event[u] # 0 /\ ~lc_timed_out[u]
        /\ lc_ret[t] = lc_ret[u]
        /\ lc_ret[t] > 0
        /\ fetch_count[CurKey(t)] = 1

(***************************************************************************)
(* C2: once a fetch for a cache key has finished, every later call with    *)
(* that key returns the cached list at once, and no REST or GraphQL        *)
(* request is issued for the key any more.                                 *)
(***************************************************************************)
C2_CachedAfterFetch ==
    /\ [][\A t \in Threads :
            (/\ lc_pc[t] = "loop"
             /\ lc_pc'[t] # "loop"
             /\ fetch_done[CacheKey(lc_repo'[t])])
            => /\ lc_pc'[t] = "assign"
               /\ lc_ret'[t] = contributors_cache[CacheKey(lc_repo'[t])]
               /\ late_requests' = late_requests]_vars
    /\ [](\A k \in Keys : late_requests[k] = 0)

\* A second and a third call for a key whose fetch has finished (here with
\* an exception, so the cached list is empty) were both served by the cache.
C2_Witness ==
    \E t \in Threads :
        /\ lc_pc[t] = "assign"
        /\ lc_event[t] = 0
        /\ fetch_done[CurKey(t)]
        /\ lc_calls = MaxCalls
        /\ \A k \in Keys : fetch_count[k] = IF k = CurKey(t) THEN 1 ELSE 0
        /\ \E u \in Threads : lc_pc[u] = "halted" /\ CurKey(u) = CurKey(t)
        /\ repo_contributors[lc_repo[t]] = 0
        /\ \E r \in Repos : r # lc_repo[t] /\ CacheKey(r) = CurKey(t)

(***************************************************************************)
(* C3: when the fetcher finishes, by return or by exception, the key has a *)
(* cache entry and its in-flight event is set, and every caller waiting on *)
(* the key eventually returns.                                             *)
(***************************************************************************)
C3_FinallyReleasesWaiters ==
    /\ [](\A k \in Keys : fetch_done[k] =>
            /\ k \in DOMAIN contributors_cache
            /\ k \notin DOMAIN contributors_inflight)
    /\ [](\A t \in Threads :
            (lc_pc[t] = "wait" /\ fetch_done[CurKey(t)]) =>
                lc_event[t] \in event_set)
    /\ \A t \in Threads : (lc_pc[t] = "wait") ~> (lc_pc[t] = "assign")

\* A waiter released by the event of a fetcher that raised.
C3_Witness ==
    \E t, u \in Threads :
        /\ lc_pc[t] = "waited" /\ ~lc_timed_out[t]
        /\ lc_pc[u] \in {"raised", "halted"}
        /\ CurKey(t) = CurKey(u)
        /\ lc_event[t] \in event_set

(***************************************************************************)
(* C10: a failed contributor lookup for one repository leaves it with an   *)
(* empty contributors list and never halts the collection loop.            *)
(***************************************************************************)
C10_FailedLookupDoesNotHalt ==
    \A t \in Threads :
        /\ lc_pc[t] # "halted"
        /\ lc_pc[t] = "raised" => repo_contributors[lc_repo[t]] = 0

(***************************************************************************)
(* C4: rest_get_json sends at most two GETs per call; the second is sent   *)
(* only after the first response was rate-limited and its token marked,    *)
(* and only when the second pick yields another token; the call returns    *)
(* JSON exactly when the response it ends with has a status below 400 and  *)
(* raises otherwise.                                                       *)
(***************************************************************************)
C4_RestRetryOnce ==
    \A t \in Calls :
        /\ c_sent[t] <= 2
        /\ c_pc[t] = "r_pick2" => c_tok[t] \in c_marked[t]
        /\ c_sent[t] = 2 =>
              /\ c_tok[t] \in c_marked[t]
              /\ c_tok2[t] \in Tokens
              /\ c_tok2[t] # c_tok[t]
        /\ c_pc[t] = "r_done" =>
              /\ c_outcome[t] = "json" <=> c_status[t] < 400
              /\ c_outcome[t] = "raise" <=> c_status[t] >= 400
              /\ c_tok[t] \in c_marked[t] =>
                    IF c_tok2[t] # c_tok[t] THEN c_sent[t] = 2 ELSE c_sent[t] = 1

\* A call whose first response was rate-limited and whose retry with the
\* other token returned JSON.
C4_Witness ==
    \E t \in Calls :
        /\ c_pc[t] = "r_done"
        /\ c_outcome[t] = "json"
        /\ c_sent[t] = 2
        /\ c_marked[t] = {c_tok[t]}

(***************************************************************************)
(* C6: pick_for_rest returns a token whose cooldown has passed whenever    *)
(* one exists, and the token of least cooldown_until otherwise; n          *)
(* consecutive calls that find all n tokens available return n different   *)
(* tokens; and the pick never blocks.                                      *)
(***************************************************************************)
RestPickOk(tok) ==
    IF \E u \in Tokens : cooldown_until[u] <= now
    THEN cooldown_until[tok] <= now
    ELSE \A u \in Tokens : cooldown_until[tok] <= cooldown_until[u]

NoRepeat(s) == \A i, j \in 1..Len(s) : i # j => s[i] # s[j]

C6_PickForRest ==
    /\ [][PoolPickForRest => RestPickOk(picked_tok')]_vars
    /\ [](NoRepeat(rr_run))
    /\ [](ENABLED PoolPickForRest)

\* n consecutive picks that found every token available returned every
\* token once, and since then a token went into cooldown
C6_Witness ==
    /\ Len(rr_run) = NTok
    /\ picked_tok = rr_run[NTok]
    /\ \E tok \in Tokens : cooldown_until[tok] > now

(***************************************************************************)
(* C5 as stated: a single graphql() call sends at most two POST requests,  *)
(* the original and at most one retry, whether the rate limit is signalled *)
(* by an HTTP 403/429 response or by a GraphQL errors payload.             *)
(***************************************************************************)
C5_AtMostTwoPosts ==
    \A t \in Calls :
        c_pc[t] \in {"g_post1", "g_pick2", "g_post2", "g_pick3", "g_post3",
                     "g_done"}
            => c_sent[t] <= 2

\* the credentials that are not cooling down and whose budget is known
KnownBudget == {u \in Tokens : cooldown_until[u] <= now /\ gql_remaining[u] # None}

GqlPickOk(tok) ==
    KnownBudget # {} =>
        /\ tok \in KnownBudget
        /\ \A u \in KnownBudget : gql_remaining[tok][1] >= gql_remaining[u][1]

(***************************************************************************)
(* C7 as stated: whenever at least one credential that is not cooling down *)
(* has a known GraphQL budget, every pick_for_graphql of a graphql() call  *)
(* returns a credential of highest known gql_remaining among the           *)
(* credentials that are not cooling down.                                  *)
(***************************************************************************)
C7_HighestKnownBudget ==
    [][\A t \in Calls :
          /\ (c_pc[t] = "idle" /\ c_pc'[t] = "g_post1") => GqlPickOk(c_tok'[t])
          /\ (c_pc[t] = "g_pick2" /\ c_pc'[t] # "g_pick2") => GqlPickOk(c_tok2'[t])
          /\ (c_pc[t] = "g_pick3" /\ c_pc'[t] # "g_pick3") => GqlPickOk(c_tok2'[t])
      ]_vars

(***************************************************************************)
(* C8: for every credential, cooldown_until never decreases in any step,   *)
(* whatever the interleaving of mark_rest_rate_limited, update_gql_budget  *)
(* and the rate-limit-error cooldown inside graphql().                     *)
(***************************************************************************)
C8_CooldownNeverDecreases ==
    [][\A tok \in Tokens : cooldown_until'[tok] >= cooldown_until[tok]]_vars

\* A credential whose budget was reported drained until a reset still to
\* come has a cooldown, set by a rate-limit mark or by graphql(), beyond
\* the reset+1 that update_gql_budget asks for
C8_Witness ==
    \E tok \in Tokens :
        /\ gql_remaining[tok] = Some(LowBudget)
        /\ gql_reset_unix[tok] > now
        /\ cooldown_until[tok] > gql_reset_unix[tok] + 1

OkFutures == FuturesIn("ok")
FailedFutures == FuturesIn("failed")

StoredByLogin == {by_login[k] : k \in DOMAIN by_login}
StoredById == {by_id[i] : i \in DOMAIN by_id}

C11_IndicesConsistent ==
    /\ [](StoredByLogin = StoredById)
    /\ [](\A k \in DOMAIN by_login : NormLogin(by_login[k].login) = k)
    /\ [](\A i \in DOMAIN by_id : by_id[i].github_id = i)
    /\ [][\A login \in Logins \ {<<>>}, github_id \in GithubIds :
            LET call == [op |-> "add", login |-> login,
                         github_id |-> github_id, ret |-> "None"]
                new == Some([login |-> login, github_id |-> github_id,
                             obj |-> Len(cs_log')])
            IN cs_log' = Append(cs_log, call) =>
                 /\ GetByLogin(login)' = new
                 /\ GetByGithubid(github_id)' = new
                 /\ \A old \in GithubIds \ {github_id} :
                       (/\ GetByGithubid(old) # None
                        /\ GetByGithubid(old) = GetByLogin(login))
                       => GetByGithubid(old)' = None]_vars

\* Bob with id 1, then Bob with id 2: one entry, under id 2 and not under 1
C11_Witness ==
    /\ Len(cs_log) = 2
    /\ cs_log[1] = [op |-> "add", login |-> <<"B", "o", "b">>,
                    github_id |-> 1, ret |-> "None"]
    /\ cs_log[2] = [op |-> "add", login |-> <<"B", "o", "b">>,
                    github_id |-> 2, ret |-> "None"]
    /\ Cardinality(DOMAIN by_login) = 1
    /\ DOMAIN by_id = {2}
    /\ GetByGithubid(2) = Some([login |-> <<"B", "o", "b">>, github_id |-> 2,
                                obj |-> 2])
    /\ GetByGithubid(1) = None

(***************************************************************************)
(* C12 as stated: after any sequence of RepositoryStore.add calls, add has *)
(* replaced the entry stored under the same retrieval_uuid, every entry of *)
(* the URL index refers to a uuid of the primary index, and get_by_url(u)  *)
(* returns the most recently added repository whose URL, stripped of       *)
(* surrounding whitespace and trailing slashes, equals u stripped alike.   *)
(***************************************************************************)
AddedWithUrl(u) ==
    {n \in DOMAIN rs_log :
        StoreNormalizeUrl(rs_log[n].repo_url) = StoreNormalizeUrl(u)}

MostRecentWithUrl(u) ==
    IF AddedWithUrl(u) = {} THEN None
    ELSE Some(rs_log[CHOOSE n \in AddedWithUrl(u) :
                         \A o \in AddedWithUrl(u) : o <= n])

C12_StoreIndices ==
    /\ \A n \in DOMAIN rs_log :
          /\ n = Len(rs_log) => GetByUuid(rs_log[n].retrieval_uuid)
                                   = Some(rs_log[n])
          /\ \A o \in DOMAIN rs_log :
                (n < o /\ rs_log[o].retrieval_uuid = rs_log[n].retrieval_uuid)
                => rs_log[n] \notin {store_by_uuid[k] :
                                        k \in DOMAIN store_by_uuid}
    /\ \A k \in DOMAIN store_by_url :
          store_by_url[k] \in DOMAIN store_by_uuid
    /\ \A u \in StoreUrls : GetByUrl(u) = MostRecentWithUrl(u)

(***************************************************************************)
(* The buckets of the scoring table: each row is an exclusive upper end    *)
(* and the fraction (in tenths) below it; the fraction is 1.0 from the     *)
(* last upper end on.  The last-updated row runs downwards: 0 from 3 years *)
(* on, then the fraction above each lower end, and 1.0 up to 0.10 years.   *)
(***************************************************************************)
StarsBuckets == << <<5, 0>>, <<10, 1>>, <<25, 2>>, <<35, 3>>, <<45, 4>>,
                   <<55, 5>>, <<65, 6>>, <<85, 7>>, <<95, 8>>, <<100, 9>> >>
ForksBuckets == << <<2, 0>>, <<3, 1>>, <<7, 2>>, <<10, 3>>, <<13, 4>>,
                   <<17, 5>>, <<23, 6>>, <<30, 7>>, <<37, 8>> >>
MaturityBuckets == << <<25, 0>>, <<50, 2>>, <<100, 4>>, <<200, 6>>,
                      <<300, 8>>, <<400, 9>> >>
ReleasesBuckets == << <<1, 0>>, <<2, 1>>, <<3, 2>>, <<7, 3>>, <<13, 4>>,
                      <<17, 5>>, <<20, 6>>, <<23, 7>>, <<27, 8>> >>
ClosedIssuesBuckets == << <<1, 0>>, <<7, 1>>, <<17, 2>>, <<33, 3>>, <<50, 4>>,
                          <<100, 6>>, <<133, 8>>, <<167, 9>> >>
LastUpdatedAbove == << <<100, 2>>, <<50, 4>>, <<25, 6>>, <<10, 8>> >>

BucketFraction(buckets, x) ==
    LET below == {n \in DOMAIN buckets : x < buckets[n][1]}
    IN IF below = {} THEN 10
       ELSE buckets[CHOOSE n \in below : \A o \in below : n <= o][2]

LastUpdatedFraction(x) ==
    LET above == {n \in DOMAIN LastUpdatedAbove : x > LastUpdatedAbove[n][1]}
    IN IF x >= 300 THEN 0
       ELSE IF above = {} THEN 10
       ELSE LastUpdatedAbove[CHOOSE n \in above : \A o \in above : n <= o][2]

TableFraction(fn, x) ==
    CASE fn = "stars_score" -> BucketFraction(StarsBuckets, x)
      [] fn = "forks_score" -> BucketFraction(ForksBuckets, x)
      [] fn = "maturity_score" -> BucketFraction(MaturityBuckets, x)
      [] fn = "last_updated_score" -> LastUpdatedFraction(x)
      [] fn = "releases_score" -> BucketFraction(ReleasesBuckets, x)
      [] fn = "closed_issues_score" -> BucketFraction(ClosedIssuesBuckets, x)

StepFunctions == {"stars_score", "forks_score", "maturity_score",
                  "last_updated_score", "releases_score",
                  "closed_issues_score"}

(***************************************************************************)
(* C14: for every non-negative input each of the six step functions        *)
(* returns a fraction, and exactly the fraction of the table's bucket that *)
(* holds the input.                                                        *)
(***************************************************************************)
C14_BucketFractions ==
    fn_call.fn \in StepFunctions =>
        /\ fn_call.ret \in 0..10
        /\ fn_call.ret = TableFraction(fn_call.fn, fn_call.arg)

\* stars_score(99) has returned 0.9
C14_Witness ==
    fn_call = [fn |-> "stars_score", arg |-> 99, ret |-> 9]

(***************************************************************************)
(* C15: is_score_passing returns "True" for every score of 70 or more,     *)
(* "Undetermined" for every score from 40 to 69, and "False" for every     *)
(* score below 40, 0 among them.                                           *)
(***************************************************************************)
C15_Classification ==
    fn_call.fn = "is_score_passing" =>
        fn_call.ret = IF fn_call.arg >= 70 THEN "True"
                      ELSE IF fn_call.arg >= 40 THEN "Undetermined"
                      ELSE "False"

\* is_score_passing(40) has returned "Undetermined"
C15_Witness ==
    fn_call = [fn |-> "is_score_passing", arg |-> 40, ret |-> "Undetermined"]

(***************************************************************************)
(* C13: the unclass_score of every RepositoryScores calculate_repo_scores  *)
(* produces is the sum of its stars, forks, maturity, last-updated and     *)
(* prevalence scores and its trusted-org bonus.                            *)
(***************************************************************************)
C13_UnclassIsSum ==
    repo_scores # None =>
        LET sc == repo_scores[1]
        IN sc.unclass_score = sc.stars_score + sc.forks_score
                              + sc.maturity_score + sc.last_updated_score
                              + sc.prevalence_score + sc.trusted_org_bonus

\* Scores whose six parts are all positive
C13_Witness ==
    /\ repo_scores # None
    /\ repo_scores[1].stars_score > 0
    /\ repo_scores[1].forks_score > 0
    /\ repo_scores[1].maturity_score > 0
    /\ repo_scores[1].last_updated_score > 0
    /\ repo_scores[1].prevalence_score > 0
    /\ repo_scores[1].trusted_org_bonus > 0
    /\ repo_scores[1].unclass_score
         = repo_scores[1].stars_score + repo_scores[1].forks_score
           + repo_scores[1].maturity_score + repo_scores[1].last_updated_score
           + repo_scores[1].prevalence_score
           + repo_scores[1].trusted_org_bonus

(***************************************************************************)
(* C16: the prevalence score is the larger of the weighted closed-issues   *)
(* score and the weighted releases-or-tags score, the latter taken from    *)
(* releases_count when that is positive and from tags_count only when      *)
(* releases_count is zero.                                                 *)
(***************************************************************************)
WeightedClosedIssues ==
    Round(weights[1].PREVALENCE_WEIGHT,
          ClosedIssuesScore(sc_repo[1].closed_issues_count))

WeightedReleasesOrTags ==
    Round(weights[1].PREVALENCE_WEIGHT,
          ReleasesScore(IF sc_repo[1].releases_count > 0
                        THEN sc_repo[1].releases_count
                        ELSE sc_repo[1].tags_count))

C16_PrevalenceIsMax ==
    repo_scores # None =>
        /\ repo_scores[1].prevalence_score >= WeightedClosedIssues
        /\ repo_scores[1].prevalence_score >= WeightedReleasesOrTags
        /\ repo_scores[1].prevalence_score
              \in {WeightedClosedIssues, WeightedReleasesOrTags}

\* No releases, two tags and no closed issue: the tags give the score
C16_Witness ==
    /\ repo_scores # None
    /\ sc_repo[1].releases_count = 0
    /\ sc_repo[1].tags_count = 2
    /\ sc_repo[1].closed_issues_count = 0
    /\ repo_scores[1].prevalence_score
         = Round(weights[1].PREVALENCE_WEIGHT, ReleasesScore(2))
    /\ repo_scores[1].prevalence_score > 0

(***************************************************************************)
(* C17 as stated: a second run of calculate_repo_scores over the unchanged *)
(* repository store leaves every repository the RepositoryScores the first *)
(* run gave it.                                                            *)
(***************************************************************************)
C17_RerunIdentical ==
    sc_runs >= 2 => repo_scores = prev_scores

(***************************************************************************)
(* The four forms of C18, for owner o and name r, and the urls that have   *)
(* one of these forms for some non-empty owner and name without a slash.   *)
(***************************************************************************)
FourForms(o, r) ==
    { HttpsGithub \o o \o <<"/">> \o r,
      HttpsGithub \o o \o <<"/">> \o r \o DotGit,
      HttpGithub \o o \o <<"/">> \o r,
      GitAtGithub \o o \o <<"/">> \o r \o DotGit }

NamedRepos == { <<<<"O">>, <<"R">>>>, <<<<"o", "r", "g">>, <<"l", "i", "b">>>> }

Slashes(s) == {i \in DOMAIN s : s[i] = "/"}

\* owner "/" name, both non-empty and without a slash
OwnerSlashName(s) ==
    /\ Cardinality(Slashes(s)) = 1
    /\ \A i \in Slashes(s) : 1 < i /\ i < Len(s)

After(s, prefix) == SubSeq(s, Len(prefix) + 1, Len(s))

HasOneOfFourForms(url) ==
    \/ StartsWith(url, HttpsGithub) /\ OwnerSlashName(After(url, HttpsGithub))
    \/ StartsWith(url, HttpGithub) /\ OwnerSlashName(After(url, HttpGithub))
    \/ /\ StartsWith(url, GitAtGithub)
       /\ EndsWith(url, DotGit)
       /\ OwnerSlashName(SubSeq(url, Len(GitAtGithub) + 1,
                                 Len(url) - Len(DotGit)))

AcceptedShape(u) ==
    \/ StartsWith(u, GitAtGithub) /\ OwnerSlashName(After(u, GitAtGithub))
    \/ \E host \in {HttpsGithub, HttpGithub} :
         /\ MatchesIgnoreCase(u, host)
         /\ \/ OwnerSlashName(After(u, host))
            \/ /\ u[Len(u)] = "/"
               /\ OwnerSlashName(SubSeq(u, Len(host) + 1, Len(u) - 1))

WaiterPositions == {"wait", "waited", "assign"}

WaiterEnters(t) ==
    (/\ lc_pc[t] = "loop"
     /\ lc_pc'[t] # "loop"
     /\ CacheKey(lc_repo'[t]) \notin DOMAIN contributors_cache
     /\ CacheKey(lc_repo'[t]) \in DOMAIN contributors_inflight)
        => /\ lc_pc'[t] = "wait"
           /\ lc_event'[t] = contributors_inflight[CacheKey(lc_repo'[t])]
           /\ fetch_count' = fetch_count
           /\ contributors_inflight' = contributors_inflight

WaiterStaysOffTheFetch(t) ==
    (lc_event[t] # 0 /\ lc_pc[t] \in WaiterPositions)
        => /\ lc_pc'[t] \in WaiterPositions \cup {"loop"}
           /\ lc_pc'[t] # lc_pc[t] => /\ fetch_count' = fetch_count
                                      /\ late_requests' = late_requests

WaiterReturnsCacheGet(t) ==
    (lc_pc[t] = "waited" /\ lc_pc'[t] # "waited")
        => /\ lc_pc'[t] = "assign"
           /\ lc_ret'[t] = DictGet(contributors_cache, CurKey(t), 0)
           /\ contributors_cache' = contributors_cache
           /\ contributors_inflight' = contributors_inflight

C19_WaiterNeverFetches ==
    [][\A t \in Threads :
          /\ WaiterEnters(t)
          /\ WaiterStaysOffTheFetch(t)
          /\ WaiterReturnsCacheGet(t)]_vars

\* A waiter whose wait timed out has returned the empty list while the
\* fetcher is still at work and the key has been fetched once
C19_Witness ==
    \E t \in Threads :
        /\ lc_pc[t] = "assign"
        /\ lc_event[t] # 0
        /\ lc_timed_out[t]
        /\ lc_ret[t] = 0
        /\ CurKey(t) \notin DOMAIN contributors_cache
        /\ CurKey(t) \in DOMAIN contributors_inflight
        /\ fetch_count[CurKey(t)] = 1

(***************************************************************************)
(* C20 as stated: when the GraphQL lookup of a batch of logins has failed, *)
(* each login of the batch has been looked up through /users/{login} by    *)
(* the time its profile is cached.                                         *)
(***************************************************************************)
C20_RestFallbackOnGqlFailure ==
    \A t \in Threads :
        (pf_pc[t] = "cached" /\ pf_first[t] = "raised") =>
            \A k \in LoginKeys(pf_batch[t]) :
                /\ k \in pf_rest[t]
                /\ k \in DOMAIN user_profile_cache

(***************************************************************************)
(* C21: a profile lookup that fails (a GraphQL query or a /users/{login}   *)
(* request that raises, or a user that is not found) leaves the fetcher in *)
(* the enrichment step; once the step is over every login of               *)
(* logins_to_enrich has an entry in the profile cache; the step that       *)
(* stores the batch stores the empty profile for every login whose lookup  *)
(* failed; and a step issues no GraphQL or REST lookup for a login it      *)
(* found in the cache.                                                     *)
(***************************************************************************)
EnrichmentPositions == {"idle", "run_split", "fallback", "store", "cached"}

FailedStoredEmpty(t) ==
    (pf_pc[t] = "store" /\ pf_pc'[t] = "cached")
        => \A k \in pf_failed[t] : /\ k \in DOMAIN user_profile_cache'
                                   /\ user_profile_cache'[k] = "empty"

C21_FailedLookupsCachedEmpty ==
    [][\A t \in Threads :
          /\ pf_pc'[t] \in EnrichmentPositions
          /\ pf_pc'[t] = "cached"
                => LoginKeys(pf_logins'[t]) \subseteq DOMAIN user_profile_cache'
          /\ FailedStoredEmpty(t)
          /\ pf_known'[t] \cap (pf_gql'[t] \cup pf_rest'[t]) = {}]_vars

\* A fetcher has been through an enrichment step that found the empty
\* profile of a login in the cache and looked up other logins only
C21_Witness ==
    \E t \in Threads :
        /\ pf_pc[t] = "cached"
        /\ pf_gql[t] # {}
        /\ pf_failed[t] # {}
        /\ \E k \in pf_known[t] : user_profile_cache[k] = "empty"

(***************************************************************************)
(* C29 as stated: no step replaces a profile of the cache that holds       *)
(* something by the empty profile.                                         *)
(***************************************************************************)
C29_ProfileNeverEmptied ==
    [][\A k \in DOMAIN user_profile_cache :
          user_profile_cache[k] # "empty"
              => user_profile_cache'[k] # "empty"]_vars

(***************************************************************************)
(* C22 as stated: when a 200 response carries errors whose message         *)
(* mentions rate limit or abuse, graphql() raises the cooldown_until of    *)
(* the credential that produced the response to at least now+30 and sends  *)
(* the query once more, with a different credential.                       *)
(***************************************************************************)
OffenderCooledDown(t) ==
    (c_pc[t] # "g_pick3" /\ c_pc'[t] = "g_pick3")
        => cooldown_until'[c_tok'[t]] >= now + GqlErrorCooldownSecs

ResentOnce(t) ==
    (c_pc[t] = "g_pick3" /\ c_pc'[t] # "g_pick3")
        => /\ c_pc'[t] = "g_post3"
           /\ c_sent'[t] = c_sent[t] + 1

ResentWithAnotherCredential(t) ==
    (c_pc[t] = "g_pick3" /\ c_pc'[t] # "g_pick3") => c_tok2'[t] # c_tok[t]

C22_ErrorsCooldownAndRetry ==
    [][\A t \in Calls :
          /\ OffenderCooledDown(t)
          /\ ResentOnce(t)
          /\ ResentWithAnotherCredential(t)]_vars

(***************************************************************************)
(* C23: when the first response of a rest_get_json or graphql call has a   *)
(* status of 400 or more and is not a rate-limit response, or is a 200     *)
(* response whose errors mention neither rate limit nor abuse, the call    *)
(* raises on that response, having sent one request, and the step changes  *)
(* no credential's cooldown_until and no GraphQL budget field.             *)
(***************************************************************************)
FirstResponse(t) ==
    c_pc[t] \in {"r_get1", "g_post1"} /\ c_pc'[t] # c_pc[t]

PlainFailure(t) ==
    \/ c_status'[t] >= 400 /\ c_tok[t] \notin c_marked'[t]
    \/ c_pc[t] = "g_post1" /\ c_status'[t] = 200 /\ c_errors'[t] = "other"

C23_PlainFailureRaisesAtOnce ==
    [][\A t \in Calls :
          (FirstResponse(t) /\ PlainFailure(t))
              => /\ c_pc'[t] \in {"r_done", "g_done"}
                 /\ c_outcome'[t] = "raise"
                 /\ c_sent'[t] = 1
                 /\ cooldown_until' = cooldown_until
                 /\ budgetVars' = budgetVars]_vars

\* A graphql call has raised on a first response whose errors are no rate
\* limit, and a rest_get_json call on a first response of 403 that is no
\* rate limit
C23_Witness ==
    /\ \E t \in Calls :
          /\ c_pc[t] = "g_done" /\ c_outcome[t] = "raise"
          /\ c_sent[t] = 1 /\ c_errors[t] = "other"
    /\ \E t \in Calls :
          /\ c_pc[t] = "r_done" /\ c_outcome[t] = "raise"
          /\ c_sent[t] = 1 /\ c_status[t] = 403 /\ c_marked[t] = {}

(***************************************************************************)
(* C24: update_gql_budget(tok, rateLimit) stores the reported remaining    *)
(* and reset time for tok; exactly when remaining is at most 50 and the    *)
(* reset is still to come, cooldown_until of tok becomes at least reset+1  *)
(* (and does not go down), otherwise it stays as it is; and nothing of     *)
(* another credential changes.                                             *)
(***************************************************************************)
TokenFields(u) ==
    <<cooldown_until[u], gql_remaining[u], gql_reset_unix[u], gql_last_cost[u],
      gql_last_remaining[u], gql_last_reset_at[u], gql_requests[u]>>

BudgetStored(tok, rl) ==
    /\ gql_remaining'[tok] = Some(rl.remaining)
    /\ rl.resetAt.kind = "iso" => gql_reset_unix'[tok] = rl.resetAt.unix
    /\ rl.resetAt.kind # "iso" => gql_reset_unix'[tok] = gql_reset_unix[tok]

ProactiveCooldown(tok, rl) ==
    IF /\ rl.remaining <= 50
       /\ rl.resetAt.kind = "iso"
       /\ rl.resetAt.unix > now
    THEN /\ cooldown_until'[tok] >= rl.resetAt.unix + 1
         /\ cooldown_until'[tok] >= cooldown_until[tok]
         /\ cooldown_until'[tok] \in {cooldown_until[tok], rl.resetAt.unix + 1}
    ELSE cooldown_until'[tok] = cooldown_until[tok]

C24_UpdateGqlBudget ==
    [][gql_requests' # gql_requests
          => /\ budget_call'.tok \in Tokens
             /\ BudgetStored(budget_call'.tok, budget_call'.rl[1])
             /\ ProactiveCooldown(budget_call'.tok, budget_call'.rl[1])
             /\ \A u \in Tokens \ {budget_call'.tok} :
                    TokenFields(u)' = TokenFields(u)]_vars

\* A credential reported a budget of 50 until a reset still to come and
\* its cooldown_until was raised to reset+1, the other credential cooling
\* down as before
C24_Witness ==
    /\ budget_call.tok \in Tokens
    /\ budget_call.rl[1].remaining = 50
    /\ budget_call.rl[1].resetAt.kind = "iso"
    /\ gql_remaining[budget_call.tok] = Some(50)
    /\ gql_reset_unix[budget_call.tok] = budget_call.rl[1].resetAt.unix
    /\ cooldown_until[budget_call.tok] = budget_call.rl[1].resetAt.unix + 1
    /\ \E u \in Tokens \ {budget_call.tok} : cooldown_until[u] > now

(***************************************************************************)
(* C25: pick_for_graphql returns a credential of the pool; the credential  *)
(* is cooling down only if every credential is, and then none has a        *)
(* smaller cooldown_until; and the pick is always possible.                *)
(***************************************************************************)
CoolingDown(u) == cooldown_until[u] > now

GqlPickCooling(tok) ==
    /\ tok \in Tokens
    /\ CoolingDown(tok)
          => /\ \A u \in Tokens : CoolingDown(u)
             /\ \A u \in Tokens : cooldown_until[tok] <= cooldown_until[u]

C25_PickForGraphqlCooling ==
    /\ [][PoolPickForGraphql => GqlPickCooling(picked_tok')]_vars
    /\ [](ENABLED PoolPickForGraphql)

\* The pick returned the second credential while both were cooling down,
\* the second for the shorter time
C25_Witness ==
    /\ picked_tok = tokens[2]
    /\ \A u \in Tokens : CoolingDown(u)
    /\ cooldown_until[tokens[2]] < cooldown_until[tokens[1]]

\* The pick returned a credential that is not cooling down although no
\* credential was a candidate: the budget of each resets later
C25_WitnessNoCandidate ==
    /\ picked_tok \in Tokens
    /\ ~CoolingDown(picked_tok)
    /\ \A u \in Tokens : gql_reset_unix[u] > now \/ CoolingDown(u)

(***************************************************************************)
(* C26: with every request returning, a list_contributors call that has    *)
(* started returns or raises.  A fetcher issues at most                    *)
(* ceil(max_contributors / 100) /contributors requests and none after a    *)
(* page of fewer than 100 entries; the list it returns and caches has at   *)
(* most max_contributors entries; and run_split never splits a batch of    *)
(* one login, so every batch it runs has at least one.                     *)
(***************************************************************************)
MaxPages == (max_contributors + per_page - 1) \div per_page

CallRunning(t) ==
    lc_pc[t] \in {"wait", "waited", "page", "enrich", "run_split", "finally"}

CallOver(t) == lc_pc[t] \in {"assign", "raised"}

PagingStops(t) ==
    (lc_pages'[t] = lc_pages[t] + 1 /\ lc_raw'[t] - lc_raw[t] < per_page)
        => lc_pc'[t] # "page"

SplitStops(t) ==
    (lc_pc[t] = "run_split" /\ lc_split'[t] # lc_split[t])
        => /\ Head(lc_split[t]) = 1 => lc_split'[t] = Tail(lc_split[t])
           /\ \A i \in 1..Len(lc_split'[t]) : lc_split'[t][i] >= 1

C26_CallTerminates ==
    /\ \A t \in Threads : CallRunning(t) ~> CallOver(t)
    /\ [](\A t \in Threads :
             /\ lc_pages[t] <= MaxPages
             /\ lc_ret[t] <= max_contributors)
    /\ [](\A k \in DOMAIN contributors_cache :
             contributors_cache[k] <= max_contributors)
    /\ [][\A t \in Threads : PagingStops(t) /\ SplitStops(t)]_vars

\* A fetcher that got two full pages, more than max_contributors entries,
\* is down to batches of one login after two failed GraphQL queries
C26_Witness ==
    \E t \in Threads :
        /\ lc_pc[t] = "run_split"
        /\ lc_pages[t] = MaxPages
        /\ lc_raw[t] = max_contributors
        /\ lc_split[t] = <<1, 1>>

(***************************************************************************)
(* C27: years_since_date_calculator returns 0 for a date that is empty,    *)
(* does not parse or lies after now; so the scores of a repository whose   *)
(* updated_at is such a date have the whole last-updated weight (the       *)
(* fraction 1.0), and those of one whose created_at does not parse have    *)
(* the maturity score 0 (the fraction 0).                                  *)
(***************************************************************************)
NoPastDate(d) == d.kind \in {"empty", "text"} \/ d.at > today

C27_NoPastDateCountsAsNow ==
    repo_scores # None =>
        /\ \A d \in {sc_repo[1].created_at, sc_repo[1].updated_at} :
              NoPastDate(d) => YearsSinceDateCalculator(d, today) = 0
        /\ NoPastDate(sc_repo[1].updated_at)
              => repo_scores[1].last_updated_score
                    = Round(weights[1].LAST_UPDATED_WEIGHT, 10)
        /\ sc_repo[1].created_at.kind \in {"empty", "text"}
              => repo_scores[1].maturity_score
                    = Round(weights[1].MATURITY_WEIGHT, 0)

\* The scores of a repository updated at a date still to come and created
\* at a date that does not parse
C27_Witness ==
    /\ repo_scores # None
    /\ sc_repo[1].updated_at.kind = "iso"
    /\ sc_repo[1].updated_at.at > today
    /\ sc_repo[1].created_at.kind = "text"
    /\ repo_scores[1].last_updated_score = weights[1].LAST_UPDATED_WEIGHT
    /\ repo_scores[1].last_updated_score > 0
    /\ repo_scores[1].maturity_score = 0

(***************************************************************************)
(* C28: whenever the contributors-cache lock is free, a cache key is       *)
(* registered in the in-flight map if and only if exactly one thread is    *)
(* executing the fetch path for that key, and no key registered in the     *)
(* in-flight map has an entry in the contributors cache. Every critical    *)
(* section is one step, so the lock is free in every state.                *)
(***************************************************************************)
FetchPositions == {"page", "enrich", "run_split", "finally"}

Fetchers(k) == {t \in Threads : lc_pc[t] \in FetchPositions /\ CurKey(t) = k}

C28_InflightIffOneFetcher ==
    /\ \A k \in Keys :
          k \in DOMAIN contributors_inflight <=> Cardinality(Fetchers(k)) = 1
    /\ DOMAIN contributors_inflight \cap DOMAIN contributors_cache = {}

\* One thread fetches a key that a second thread waits for, after the
\* fetch of another key has been cached and its registration removed
C28_Witness ==
    \E t, u \in Threads :
        /\ t # u
        /\ Fetchers(CurKey(t)) = {t}
        /\ lc_pc[u] = "wait"
        /\ CurKey(u) = CurKey(t)
        /\ CurKey(t) \in DOMAIN contributors_inflight
        /\ \E k \in DOMAIN contributors_cache :
              /\ k # CurKey(t)
              /\ fetch_done[k]
              /\ k \notin DOMAIN contributors_inflight

(***************************************************************************)
(* C30: with every other field of the repository fixed, a larger stars,    *)
(* forks, releases_count, tags_count or closed_issues_count never lowers   *)
(* the unclass_score that calculate_repo_scores computes.                  *)
(***************************************************************************)
CountFields ==
    {"stars", "forks", "releases_count", "tags_count", "closed_issues_count"}

\* The counts the modelled repositories have, and their neighbours
RaisedCounts == {0, 1, 2, 4, 5, 6, 27, 37, 100, 167}

\* The repositories that differ from repo_data by one larger count
Raised(repo_data) ==
    { [repo_data EXCEPT ![f] = n] :
        <<f, n>> \in { p \in CountFields \X RaisedCounts :
                          p[2] > repo_data[p[1]] } }

C30_MoreNeverLowersScore ==
    [][sc_runs' = sc_runs + 1 =>
          \A more \in Raised(sc_repo[1]) :
              RepositoryScores(more, today).unclass_score
                  >= repo_scores'[1].unclass_score]_vars

====
